---- MODULE Spec2Model ----
(***************************************************************************)
(* Template Acquisition & Materialization Engine of kickstart-hub-vscode   *)
(* (commands/createProject.js).                                            *)
(*                                                                         *)
(* The components are modelled each under its own specification:           *)
(*   SpecRegistry  the registry cache manager (updateTemplateRegistry,     *)
(*                 shouldUpdateRegistry, getTemplateRegistry);             *)
(*   SpecFetch     the remote tree fetcher and file materializer           *)
(*                 (downloadTemplateFromGitHub, downloadTemplateViaAPI,    *)
(*                 countTotalFiles, downloadFileRecursively,               *)
(*                 downloadTemplateViaGit);                                *)
(*   SpecTokens    the replacement table of a project name;                *)
(*   SpecSubst     the template processor (processTemplateFiles,           *)
(*                 getAllFiles, isBinaryFile);                             *)
(*   SpecCreate    one createProjectFromGitHub call: collision dialog,     *)
(*                 fetch, substitution, overlay                            *)
(*                 (applyAdditionalConfigurations,                         *)
(*                 applyFeatureConfigurations) and post-creation scripts;  *)
(*   SpecCacheCheck  the registry cache manager started from every cache   *)
(*                 directory an earlier session can have left;             *)
(*   SpecWizard    one createProject call: registry refresh, the prompts,  *)
(*                 the confirmation and createProjectFromGitHub;           *)
(*   SpecJobs      two createProject jobs whose awaits interleave;         *)
(*   SpecDownload, SpecDownloadFair  one downloadFile call against every   *)
(*                 remote, without and with the progress of the event      *)
(*                 loop.                                                   *)
(*                                                                         *)
(* Time is counted in minutes.  In the registry and fetcher a file is a    *)
(* record with a kind, a path is a sequence of names and names are         *)
(* integers (DirName for directories, 1..n for files); an error message is *)
(* a sequence of text fragments and Includes is membership of a fragment.  *)
(* In the processor and createProjectFromGitHub paths and file contents    *)
(* are strings, handled character by character.                            *)
(***************************************************************************)
EXTENDS Integers, Sequences, FiniteSets, TLC

\* ------------------------------------------------------------------ bounds
MaxVersion == 2    \* registry documents declare version 1..MaxVersion
MaxTicks   == 4    \* the clock advances at most MaxTicks half-TTL steps
MaxDepth   == 2    \* nesting depth of the remote template tree
MaxFiles   == 2    \* files per directory of the remote template tree
MaxNameLen == 3    \* project names of the derivation check: 1..MaxNameLen characters
MaxRuns    == 2    \* processTemplateFiles runs at most MaxRuns times on one tree
MaxTreeFiles == 2  \* files of a materialised tree
MaxFeatures == 2   \* features selected in the additional configuration
MaxJobFiles == 2   \* files the API pass of a job writes
MaxClock   == 1    \* milliseconds that pass while the jobs run
MaxUrls    == 2    \* URLs a downloadFile call can be sent to
MaxChunks  == 2    \* data events of one response

\* ------------------------------------------------------- program constants
\* CACHE_CONFIG.maxAge = 30 * 60 * 1000 ms, here in minutes
MaxAge == 30

TickStep == MaxAge \div 2

\* ----------------------------------- state of the registry cache manager
VARIABLES
    extensionFound,  \* vscode.extensions.getExtension(...) is defined
    registryFile,    \* cache/template-registry.json
    cacheInfoFile,   \* cache/cache-info.json
    now,             \* Date.now()
    regOutcome,      \* last updateTemplateRegistry: "none" | "returned" | "threw"
    regStep,         \* how far its refresh got
    regRemote,       \* what the remote answered in that call
    regPrev,         \* registryFile when that call started
    regPrevInfo,     \* cacheInfoFile when that call started
    regPrevNow       \* Date.now() when that call started

regVars == <<extensionFound, registryFile, cacheInfoFile, now, regOutcome,
             regStep, regRemote, regPrev, regPrevInfo, regPrevNow>>

\* ------------------------------------ state of the remote tree fetcher
VARIABLES
    frameworkKey,   \* the template key asked for
    scope,          \* the scope asked for
    treeDepth,      \* the remote template: directories nested treeDepth deep,
    treeFiles,      \*   each directory listing treeFiles files
    pc,             \* downloadTemplateFromGitHub: "start" | "catch" | "returned" | "threw"
    destDirs,       \* directories under projectPath (<<>> is projectPath itself)
    destFiles,      \* files under projectPath: relative path -> content
    destExistedBefore, \* projectPath existed when the call started
    callLog,        \* the strategies invoked, in order
    apiErr,         \* what downloadTemplateViaAPI threw (<<>>: nothing)
    gitErr,         \* what downloadTemplateViaGit threw (<<>>: nothing)
    thrown,         \* what downloadTemplateFromGitHub threw (<<>>: nothing)
    totalFiles,     \* countTotalFiles(response)
    progressLog,    \* downloadedFiles at each progress.report of the API pass
    writeLog,       \* the remote files written by the API pass, in order
    swallowed,      \* errors caught inside downloadFileRecursively
    plan,           \* which remote requests and writes failed in the API pass
    gitExit,        \* the exit path downloadTemplateViaGit took
    tempCreated,    \* the staging directory existed before the finally block
    tempExists      \* the staging directory exists

fetchVars == <<frameworkKey, scope, treeDepth, treeFiles, pc, destDirs,
               destFiles, destExistedBefore, callLog, apiErr, gitErr, thrown,
               totalFiles, progressLog, writeLog, swallowed, plan, gitExit,
               tempCreated, tempExists>>

\* --------------------------------- state of the template processor
VARIABLES
    projectName,    \* the project name given to processTemplateFiles
    replacements,   \* the replacement table it built (<<>>: none yet)
    projectFiles,   \* files under projectPath: relative path -> content
    filesBefore,    \* projectFiles when the last processTemplateFiles started
    visited,        \* the files the last processTemplateFiles read
    written,        \* the files the last processTemplateFiles wrote
    runs            \* processTemplateFiles calls so far

procVars == <<projectName, replacements, projectFiles, filesBefore, visited,
              written, runs>>

\* ------------------------------ state of one createProjectFromGitHub call
VARIABLES
    createPc,          \* "idle" | "start" | "fetch" | "subst" | "overlay" | "post" |
                       \*   "done" | "cancelled" | "threw"
    destExisted,       \* projectPath existed when the call started
    priorFiles,        \* the files it held then
    choice,            \* the answer to the collision dialog ("none": not asked)
    stepLog,           \* the steps invoked inside withProgress, in order
    fileOrigin,        \* who wrote each file of projectFiles last
    substSaw,          \* the files processTemplateFiles read, with their origin
    additionalConfig,  \* the additional configuration of the call
    failing,           \* the features whose configurator throws
    featureLog,        \* the features applyFeatureConfigurations went through
    featureErr         \* applyFeatureConfigurations threw

flowVars == <<createPc, destExisted, priorFiles, choice, stepLog, fileOrigin,
              substSaw, additionalConfig, failing, featureLog, featureErr>>

\* -------------------------------------------- state of one createProject call
VARIABLES
    wizPc,            \* the statement createProject is at
    frameworkScopes,  \* framework.scopes of the descriptor the user picks
    wizScope,         \* what selectProjectScope returned ("none": null)
    wizLog,           \* the functions createProject called after the refresh
    dialogShown,      \* confirmProjectCreation showed its dialog
    wizStop,          \* why createProject stopped
    wizOutcome,       \* its promise: "none" | "returned" | "rejected"
    errorLog          \* the messages given to showErrorMessage

wizVars == <<wizPc, frameworkScopes, wizScope, wizLog, dialogShown, wizStop,
             wizOutcome, errorLog>>

\* ------------------------- state of the commands running at the same time
VARIABLES
    jobPc,       \* where each createProject job is
    jobDest,     \* the projectPath of each job
    jobLeft,     \* the files its API pass has still to write
    jobTemp,     \* the staging directory of its downloadTemplateViaGit call
    jobOk,       \* its downloadTemplateViaGit call has not thrown
    jobDirs,     \* the project paths that exist
    tempDirs,    \* the staging directories that exist
    jobClock,    \* Date.now(), in milliseconds
    jobWrites    \* every write under a project path: <<job, projectPath>>

jobVars == <<jobPc, jobDest, jobLeft, jobTemp, jobOk, jobDirs, tempDirs,
             jobClock, jobWrites>>

\* --------------------------------------------- state of one downloadFile call
VARIABLES
    dlPc,        \* "idle" | "requesting" | "receiving" | "resolved" | "rejected"
    dlUrl,       \* the URL the pending https.get asked for
    dlRemote,    \* how the remote answers each URL
    dlChunks     \* the data events received so far

dlVars == <<dlPc, dlUrl, dlRemote, dlChunks>>

outsideRegistry == <<fetchVars, procVars, flowVars, wizVars, jobVars, dlVars>>
outsideFetch == <<regVars, procVars, flowVars, wizVars, jobVars, dlVars>>
outsideProcessor == <<regVars, fetchVars, flowVars, wizVars, jobVars, dlVars>>
outsideCreate == <<regVars, fetchVars, wizVars, jobVars, dlVars>>
outsideWizard == <<regVars, fetchVars, procVars, flowVars, jobVars, dlVars>>
outsideJobs == <<regVars, fetchVars, procVars, flowVars, wizVars, dlVars>>
outsideDownload == <<regVars, fetchVars, procVars, flowVars, wizVars, jobVars>>

vars == <<regVars, fetchVars, procVars, flowVars, wizVars, jobVars, dlVars>>

\* =========================================================================
\*                         REGISTRY CACHE MANAGER
\* =========================================================================
\* File contents.  "json" is a well-formed registry document declaring a
\* version; "jsonNull" is valid JSON that is no object (the text null);
\* "garbage" is text that is not JSON; "partial" is what a failed write left.
AbsentFile   == [kind |-> "absent", version |-> 0, lastUpdated |-> 0]
Doc(v)       == [kind |-> "json", version |-> v, lastUpdated |-> 0]
GarbageDoc   == [kind |-> "garbage", version |-> 0, lastUpdated |-> 0]
JsonNullDoc  == [kind |-> "jsonNull", version |-> 0, lastUpdated |-> 0]
PartialFile  == [kind |-> "partial", version |-> 0, lastUpdated |-> 0]
CacheInfo(t, v) == [kind |-> "json", version |-> v, lastUpdated |-> t]
\* A metadata file holding a JSON object without the lastUpdated property
NoTimestampInfo == [kind |-> "jsonNoTimestamp", version |-> 0, lastUpdated |-> 0]

Unreachable  == [kind |-> "unreachable", version |-> 0, lastUpdated |-> 0]
NoRemote     == [kind |-> "none", version |-> 0, lastUpdated |-> 0]

\* What the raw URL can answer: nothing, or a body.
RemoteOutcomes ==
    {Unreachable, GarbageDoc, JsonNullDoc} \cup {Doc(v) : v \in 1..MaxVersion}

\* fs.writeFile: done, failed before touching the file, or failed after
\* truncating it.
WriteOutcomes == {"ok", "failUntouched", "failPartial"}

\* fs.pathExists
pathExists(file) == file.kind # "absent"

\* JSON.parse succeeds
JsonParses(file) == file.kind \in {"json", "jsonNull", "jsonNoTimestamp"}

\* JSON.parse(registryData).version evaluates (null.version is a TypeError)
VersionReadable(file) == file.kind = "json"

\* fs.writeFile(path, data) under a write outcome
writeFile(old, data, outcome) ==
    CASE outcome = "ok"            -> data
      [] outcome = "failUntouched" -> old
      [] OTHER                     -> PartialFile

\* shouldUpdateRegistry(registryPath)
shouldUpdateRegistry(reg, info, t) ==
    IF ~pathExists(reg) THEN TRUE
    ELSE IF ~pathExists(info) THEN TRUE
    ELSE IF ~JsonParses(info) THEN TRUE          \* readJson throws: catch
    ELSE IF info.kind = "jsonNull" THEN TRUE     \* null.lastUpdated throws: catch
    ELSE IF info.kind = "jsonNoTimestamp" THEN FALSE  \* NaN > maxAge is false
    ELSE (t - info.lastUpdated) > MaxAge

\* getTemplateRegistry(): the registry, or null.  The result is the file's
\* record for a parsed object and NullRegistry for null.
NullRegistry == [kind |-> "null", version |-> 0, lastUpdated |-> 0]
getTemplateRegistry(found, reg) ==
    IF ~found THEN NullRegistry
    ELSE IF pathExists(reg) /\ reg.kind = "json" THEN reg
    ELSE NullRegistry

\* The refresh callback of updateTemplateRegistry (the withProgress body):
\* the step at which it stops, "done" when it ran through.
RefreshStep(remote, w1, w2) ==
    IF remote.kind = "unreachable" THEN "download"
    ELSE IF w1 # "ok" THEN "writeRegistry"
    ELSE IF ~JsonParses(remote) \/ ~VersionReadable(remote) THEN "parse"
    ELSE IF w2 # "ok" THEN "writeInfo"
    ELSE "done"

\* The registry file after the refresh callback.
RegistryAfterRefresh(old, remote, w1) ==
    IF remote.kind = "unreachable" THEN old
    ELSE writeFile(old, remote, w1)

\* The metadata file after the refresh callback.
CacheInfoAfterRefresh(old, remote, w1, w2, t) ==
    IF RefreshStep(remote, w1, w2) \in {"writeInfo", "done"}
    THEN writeFile(old, CacheInfo(t, remote.version), w2)
    ELSE old

\* The catch block of updateTemplateRegistry: continue with the cached
\* version if the registry file exists, else throw.
MutantCatchAlwaysThrows(regAfter) == "threw"

CatchOutcome(regAfter) ==
    IF ~pathExists(regAfter) THEN "threw" ELSE "returned"

\* updateTemplateRegistry()
UpdateTemplateRegistry ==
    /\ \E remote \in RemoteOutcomes, w1 \in WriteOutcomes, w2 \in WriteOutcomes :
        /\ regPrev' = registryFile
        /\ regPrevInfo' = cacheInfoFile
        /\ regPrevNow' = now
        /\ IF ~extensionFound
           THEN /\ regOutcome' = "returned"
                /\ regStep' = "noExtension"
                /\ regRemote' = NoRemote
                /\ UNCHANGED <<registryFile, cacheInfoFile>>
           ELSE IF ~shouldUpdateRegistry(registryFile, cacheInfoFile, now)
           THEN /\ regOutcome' = "returned"
                /\ regStep' = "fresh"
                /\ regRemote' = NoRemote
                /\ UNCHANGED <<registryFile, cacheInfoFile>>
           ELSE LET step == RefreshStep(remote, w1, w2)
                    reg  == RegistryAfterRefresh(registryFile, remote, w1)
                    info == CacheInfoAfterRefresh(cacheInfoFile, remote, w1, w2, now)
                IN  /\ registryFile' = reg
                    /\ cacheInfoFile' = info
                    /\ regStep' = step
                    /\ regRemote' = remote
                    /\ regOutcome' = IF step = "done" THEN "returned"
                                     ELSE CatchOutcome(reg)
        /\ UNCHANGED <<extensionFound, now>>
    /\ UNCHANGED outsideRegistry

\* The clock advances.
Tick ==
    /\ now + TickStep <= MaxTicks * TickStep
    /\ now' = now + TickStep
    /\ UNCHANGED <<extensionFound, registryFile, cacheInfoFile, regOutcome,
                   regStep, regRemote, regPrev, regPrevInfo, regPrevNow>>
    /\ UNCHANGED outsideRegistry

RegInit ==
    /\ extensionFound \in BOOLEAN
    /\ registryFile = AbsentFile
    /\ cacheInfoFile = AbsentFile
    /\ now = 0
    /\ regOutcome = "none"
    /\ regStep = "none"
    /\ regRemote = NoRemote
    /\ regPrev = AbsentFile
    /\ regPrevInfo = AbsentFile
    /\ regPrevNow = 0

\* The cache directory as an earlier session, another writer or an
\* interrupted write can have left it.
CacheCheckInit ==
    /\ extensionFound \in BOOLEAN
    /\ registryFile \in {AbsentFile, GarbageDoc} \cup {Doc(v) : v \in 1..MaxVersion}
    /\ cacheInfoFile \in {AbsentFile, GarbageDoc, JsonNullDoc, PartialFile,
                          NoTimestampInfo, CacheInfo(0, 1)}
    /\ now = 0
    /\ regOutcome = "none"
    /\ regStep = "none"
    /\ regRemote = NoRemote
    /\ regPrev = AbsentFile
    /\ regPrevInfo = AbsentFile
    /\ regPrevNow = 0

\* =========================================================================
\*                 REMOTE TREE FETCHER AND FILE MATERIALIZER
\* =========================================================================
\* ------------------------------------------------------ the remote repository
\* The repository holds one template, templates/demo/minimal; every other
\* key/scope pair is absent from it.
Keys   == {"demo", "ghost"}
Scopes == {"minimal", "enterprise"}
TemplateExists(key, sc) == key = "demo" /\ sc = "minimal"

\* The name of every directory entry.
DirName == 0

\* The name of the i-th file of a directory: 1..treeFiles at the root and
\* shifted by one per nesting level, so that a directory shares some file
\* names with its parent and has one its parent has not.
FileName(dirPath, i) == i + Len(dirPath)

\* A remote path is relative to templates/<key>/<scope>.  A directory at
\* nesting level k has the path <<DirName, ..., DirName>> of length k.
FileItem(dirPath, i) ==
    [type |-> "file", name |-> FileName(dirPath, i),
     url |-> Append(dirPath, FileName(dirPath, i))]
DirItem(dirPath) == [type |-> "dir", name |-> DirName, url |-> Append(dirPath, DirName)]

\* The directory-listing response for a remote directory: the first file, the
\* sub-directory (above the deepest level), then the other files.
Listing(dirPath) ==
    LET first == IF treeFiles >= 1 THEN <<FileItem(dirPath, 1)>> ELSE <<>>
        sub   == IF Len(dirPath) < treeDepth THEN <<DirItem(dirPath)>> ELSE <<>>
        rest  == [i \in 1..(treeFiles - 1) |-> FileItem(dirPath, i + 1)]
    IN  first \o sub \o rest

RECURSIVE FilesInOrder(_)
\* Every file of the remote tree below dirPath, depth first in listing order.
FilesInOrder(dirPath) ==
    LET first == IF treeFiles >= 1 THEN <<Append(dirPath, FileName(dirPath, 1))>>
                 ELSE <<>>
        sub   == IF Len(dirPath) < treeDepth
                 THEN FilesInOrder(Append(dirPath, DirName)) ELSE <<>>
        rest  == [i \in 1..(treeFiles - 1) |->
                     Append(dirPath, FileName(dirPath, i + 1))]
    IN  first \o sub \o rest

Range(f) == {f[i] : i \in DOMAIN f}
AllFiles == Range(FilesInOrder(<<>>))
DirPath(k) == [j \in 1..k |-> DirName]
AllDirs == {DirPath(k) : k \in 1..treeDepth}

\* ------------------------------------------------------------ error messages
NoError == <<>>
\* String.prototype.includes on a message
Includes(msg, fragment) == fragment \in Range(msg)

apiUrl(key, sc) ==
    <<"https://api.github.com/repos/fahadismail95/kickstart-hub-templates/contents/templates/",
      key, "/", sc, "?ref=master">>

\* downloadFile: reject(new Error(`HTTP ${statusCode}: ${statusMessage} for URL: ${url}`))
HttpError(status, statusMessage, url) ==
    <<"HTTP ", status, ": ", statusMessage, " for URL: ">> \o url

\* downloadJson: the catch that rewrites the error of downloadFile / JSON.parse
downloadJsonError(err, url) ==
    IF Includes(err, "404")
    THEN <<"Resource not found: ">> \o url
    ELSE (<<"Failed to download JSON from ">> \o url) \o (<<": ">> \o err)

\* downloadTemplateViaAPI: the catch that relabels a not-found error
ViaAPICatch(err, key, sc) ==
    IF Includes(err, "404") \/ Includes(err, "Not Found")
    THEN <<"Template not found: ", key, "/", sc,
           ". Please ensure the template exists in the GitHub repository.">>
    ELSE err

\* downloadTemplateFromGitHub: the error thrown when both strategies failed
TemplateUnavailable(key, sc) ==
    <<"Template not found or could not be downloaded: ", key, "/", sc,
      ". Please check if the template exists in the repository.">>

\* An error's message names the template and the scope.
NamesTemplate(err, key, sc) == Includes(err, key) /\ Includes(err, sc)

\* download_url of a file of the template (the path within it left out)
fileUrl(key, sc) ==
    <<"https://raw.githubusercontent.com/fahadismail95/kickstart-hub-templates/master/templates/",
      key, "/", sc, "/<path>">>

\* ------------------------------------------------- the API pass (Strategy A)
\* What the remote and the disk do during one downloadTemplateViaAPI call:
\*   root       the answer to the listing of the template path,
\*   countFail  the nesting levels whose listing fails in countTotalFiles,
\*   dlFail     the nesting levels whose listing fails in downloadFileRecursively,
\*   failFiles  the files whose download or write fails,
\*   failKind   how they fail: "404" (downloadFile) or "write" (fs.writeFile).
NoPlan == [root |-> "none", countFail |-> {}, dlFail |-> {}, failFiles |-> {},
           failKind |-> "404"]

Plans(key, sc) ==
    IF TemplateExists(key, sc)
    THEN {[root |-> "error", countFail |-> {}, dlFail |-> {}, failFiles |-> {},
           failKind |-> "404"]}
         \cup
         [root : {"ok"}, countFail : SUBSET (1..treeDepth),
          dlFail : SUBSET (1..treeDepth),
          failFiles : {{}} \cup {{f} : f \in AllFiles},
          failKind : {"404", "write"}]
    ELSE [root : {"notFound", "error"}, countFail : {{}}, dlFail : {{}},
          failFiles : {{}}, failKind : {"404"}]

\* The error of a failed file download or write
FileError(P, key, sc) ==
    IF P.failKind = "404"
    THEN HttpError("404", "Not Found", fileUrl(key, sc))
    ELSE <<"EACCES: permission denied, open '<path>'">>

\* The error downloadJson throws for the listing of the template path
RootListingError(P, key, sc) ==
    IF P.root = "notFound"
    THEN downloadJsonError(HttpError("404", "Not Found", apiUrl(key, sc)), apiUrl(key, sc))
    ELSE downloadJsonError(HttpError("403", "rate limit exceeded", apiUrl(key, sc)),
                           apiUrl(key, sc))

RECURSIVE countTotalFiles(_, _, _)
\* countTotalFiles(items), from item i on
countTotalFiles(items, i, P) ==
    IF i > Len(items) THEN 0
    ELSE LET item == items[i]
             here == IF item.type = "file" THEN 1
                     ELSE IF Len(item.url) \in P.countFail THEN 0  \* caught: skipped
                     ELSE countTotalFiles(Listing(item.url), 1, P)
         IN  here + countTotalFiles(items, i + 1, P)

\* The state one API pass threads through its calls.
PassState(dirs, files) ==
    [dirs |-> dirs, files |-> files, downloadedFiles |-> 0, log |-> <<>>,
     writes |-> <<>>, err |-> NoError, swallowed |-> {}]

\* The callback downloadTemplateViaAPI hands to downloadFileRecursively
onFileDownloaded(st, fileCount) ==
    [st EXCEPT !.downloadedFiles = @ + fileCount,
               !.log = Append(@, st.downloadedFiles + fileCount)]

\* The basePath downloadFileRecursively passes on for the entries of a
\* directory it has created at filePath.
ChildBasePath(basePath, filePath) == basePath

\* fs.writeFile(filePath, fileContent)
writeTemplateFile(files, filePath, content) ==
    [p \in DOMAIN files \cup {filePath} |->
        IF p = filePath THEN content ELSE files[p]]

RECURSIVE downloadFileRecursively(_, _, _, _, _, _)
RECURSIVE downloadItems(_, _, _, _, _, _, _)

\* for (const item of items) await downloadFileRecursively(item, basePath, ...):
\* a thrown error ends the loop.
downloadItems(items, i, basePath, st, P, key, sc) ==
    IF i > Len(items) \/ st.err # NoError THEN st
    ELSE downloadItems(items, i + 1, basePath,
                       downloadFileRecursively(items[i], basePath, st, P, key, sc),
                       P, key, sc)

\* What the try/catch around a directory's entries does with an error thrown
\* below it.
\* The error downloadJson throws for the listing of a sub-directory
ListingError ==
    <<"Failed to download JSON from ", "<item.url>", ": ", "HTTP ", "403", ": ",
      "rate limit exceeded", " for URL: ", "<item.url>">>

MutantCatchRethrows(r) == r

CatchInDirectory(r) ==
    IF r.err # NoError
    THEN [r EXCEPT !.err = NoError,
                   !.swallowed = @ \cup {IF r.err = ListingError THEN "listing"
                                         ELSE "file"}]
    ELSE r

downloadFileRecursively(item, basePath, st, P, key, sc) ==
    LET filePath == Append(basePath, item.name) IN
    IF item.type = "file"
    THEN IF item.url \in P.failFiles
         THEN [st EXCEPT !.err = FileError(P, key, sc)]
         ELSE onFileDownloaded(
                  [st EXCEPT !.files = writeTemplateFile(@, filePath, item.url),
                             !.writes = Append(@, item.url)], 1)
    ELSE LET st1 == [st EXCEPT !.dirs = @ \cup {filePath}] IN
         CatchInDirectory(
             IF Len(item.url) \in P.dlFail
             THEN [st1 EXCEPT !.err = ListingError]
             ELSE downloadItems(Listing(item.url), 1,
                                ChildBasePath(basePath, filePath), st1, P, key, sc))

\* The outcome of downloadTemplateViaAPI: the pass state with the error thrown.
ViaAPI(dirs, files, P, key, sc) ==
    LET st0 == PassState(dirs \cup {<<>>}, files) IN      \* fs.ensureDir(projectPath)
    IF P.root # "ok"
    THEN [st0 EXCEPT !.err = ViaAPICatch(RootListingError(P, key, sc), key, sc)]
    ELSE LET r == downloadItems(Listing(<<>>), 1, <<>>, st0, P, key, sc)
         IN  [r EXCEPT !.err = IF r.err = NoError THEN NoError
                                ELSE ViaAPICatch(r.err, key, sc)]

\* downloadTemplateFromGitHub: where control goes after downloadTemplateViaAPI
MutantAlwaysFallBack(err) == "catch"

AfterAPI(err) == IF err = NoError THEN "returned" ELSE "catch"

\* downloadTemplateViaAPI(frameworkKey, scope, projectPath, progress)
DownloadTemplateViaAPI ==
    /\ pc = "start"
    /\ \E P \in Plans(frameworkKey, scope) :
        LET r == ViaAPI(destDirs, destFiles, P, frameworkKey, scope) IN
        /\ plan' = P
        /\ totalFiles' = IF P.root = "ok" THEN countTotalFiles(Listing(<<>>), 1, P)
                         ELSE 0
        /\ destDirs' = r.dirs
        /\ destFiles' = r.files
        /\ progressLog' = r.log
        /\ writeLog' = r.writes
        /\ swallowed' = r.swallowed
        /\ apiErr' = r.err
        /\ pc' = AfterAPI(r.err)
    /\ callLog' = Append(callLog, "api")
    /\ UNCHANGED <<frameworkKey, scope, treeDepth, treeFiles, destExistedBefore,
                   gitErr, thrown, gitExit, tempCreated, tempExists>>
    /\ UNCHANGED outsideFetch

\* ------------------------------------------- the sparse clone (Strategy B)
\* The exit path of downloadTemplateViaGit under the outcomes of its steps.
GitExit(clone, sparse, copy, key, sc) ==
    IF clone = "fail" THEN "cloneFailed"
    ELSE IF sparse = "fail" THEN "sparseFailed"
    ELSE IF ~TemplateExists(key, sc) THEN "pathMissing"
    ELSE IF copy = "fail" THEN "copyFailed"
    ELSE "copied"

\* What downloadTemplateViaGit throws on an exit path.
GitError(exit, key, sc) ==
    CASE exit = "cloneFailed"  -> <<"Command failed: git clone --filter=blob:none --sparse">>
      [] exit = "sparseFailed" -> <<"Command failed: git sparse-checkout set">>
      [] exit = "pathMissing"  -> <<"Template path not found: ", "templates/", key, "/", sc>>
      [] exit = "copyFailed"   -> <<"ENOSPC: no space left on device, copyfile">>
      [] OTHER                 -> NoError

\* The staging directory exists when the finally block is entered: a clone
\* that ran created it, a clone that failed may have.
TempBeforeFinally(clone, left) == IF clone = "ok" THEN TRUE ELSE left

\* The finally block: if (await fs.pathExists(tempDir)) await fs.remove(tempDir)
MutantCleanupAfterCopyOnly(exit, existed) ==
    IF exit = "copied" THEN FALSE ELSE existed

TempAfterFinally(exit, existed) == IF existed THEN FALSE ELSE existed

\* The parent directories of a relative path, the root included.
Parents(path) == {SubSeq(path, 1, k) : k \in 0..(Len(path) - 1)}

\* fs.copy(sourcePath, projectPath), stopped after the first k files: every
\* file keeps its path relative to the template root.
CopiedFiles(files, k) ==
    LET order == FilesInOrder(<<>>)
        new   == {order[i] : i \in 1..k}
    IN  [p \in DOMAIN files \cup new |-> IF p \in new THEN p ELSE files[p]]

CopiedDirs(dirs, k, whole) ==
    LET order == FilesInOrder(<<>>)
    IN  dirs \cup UNION {Parents(order[i]) : i \in 1..k}
             \cup (IF whole THEN AllDirs \cup {<<>>} ELSE {})

\* downloadTemplateFromGitHub: what it throws after downloadTemplateViaGit
MutantRethrowGitError(err, key, sc) == err

FinalError(err, key, sc) ==
    IF err = NoError THEN NoError ELSE TemplateUnavailable(key, sc)

\* downloadTemplateViaGit(frameworkKey, scope, projectPath, progress), run in
\* the catch block of downloadTemplateFromGitHub
DownloadTemplateViaGit ==
    /\ pc = "catch"
    /\ \E clone \in {"ok", "fail"}, left \in BOOLEAN, sparse \in {"ok", "fail"},
          copy \in {"ok", "fail"}, k \in 0..Len(FilesInOrder(<<>>)) :
        LET exit == GitExit(clone, sparse, copy, frameworkKey, scope)
            n    == IF exit = "copied" THEN Len(FilesInOrder(<<>>))
                    ELSE IF exit = "copyFailed" THEN k ELSE 0
            err  == GitError(exit, frameworkKey, scope)
        IN  /\ k < Len(FilesInOrder(<<>>)) \/ copy = "ok"
            /\ gitExit' = exit
            /\ tempCreated' = TempBeforeFinally(clone, left)
            /\ tempExists' = TempAfterFinally(exit, TempBeforeFinally(clone, left))
            /\ destFiles' = CopiedFiles(destFiles, n)
            /\ destDirs' = IF exit \in {"copied", "copyFailed"}
                           THEN CopiedDirs(destDirs, n, exit = "copied")
                           ELSE destDirs
            /\ gitErr' = err
            /\ thrown' = FinalError(err, frameworkKey, scope)
            /\ pc' = IF FinalError(err, frameworkKey, scope) = NoError
                     THEN "returned" ELSE "threw"
    /\ callLog' = Append(callLog, "git")
    /\ UNCHANGED <<frameworkKey, scope, treeDepth, treeFiles, destExistedBefore,
                   apiErr, totalFiles, progressLog, writeLog, swallowed, plan>>
    /\ UNCHANGED outsideFetch

\* What projectPath held before the call when it existed (the Merge choice of
\* createProjectFromGitHub): one file at a path the template also has, one at
\* a path it has not.
OldContent == <<-1>>
PriorFiles == [p \in {<<1>>, <<-1>>} |-> OldContent]

FetchInit ==
    /\ frameworkKey \in Keys
    /\ scope \in Scopes
    /\ treeDepth \in 0..MaxDepth
    /\ treeFiles \in 1..MaxFiles
    /\ pc = "start"
    /\ destExistedBefore \in BOOLEAN
    /\ destDirs = IF destExistedBefore THEN {<<>>} ELSE {}
    /\ destFiles = IF destExistedBefore THEN PriorFiles ELSE <<>>
    /\ callLog = <<>>
    /\ apiErr = NoError
    /\ gitErr = NoError
    /\ thrown = NoError
    /\ totalFiles = 0
    /\ progressLog = <<>>
    /\ writeLog = <<>>
    /\ swallowed = {}
    /\ plan = NoPlan
    /\ gitExit = "none"
    /\ tempCreated = FALSE
    /\ tempExists = FALSE

\* =========================================================================
\* Template processor: processTemplateFiles, getAllFiles, isBinaryFile
\* =========================================================================
\* Text is a string; At(s, i) is its i-th character.
At(s, i) == SubSeq(s, i, i)

LowerLetters == "abcdefghijklmnopqrstuvwxyz"
UpperLetters == "ABCDEFGHIJKLMNOPQRSTUVWXYZ"
Digits == "0123456789"

\* The characters of s
CharsOf(s) == {At(s, i) : i \in 1..Len(s)}

\* Position of character c in s
IndexOf(s, c) == CHOOSE i \in 1..Len(s) : At(s, i) = c

\* The lower-case and upper-case forms of the letters
ToLower == [c \in CharsOf(UpperLetters) |-> At(LowerLetters, IndexOf(UpperLetters, c))]
ToUpper == [c \in CharsOf(LowerLetters) |-> At(UpperLetters, IndexOf(LowerLetters, c))]

LowerChar(c) == IF c \in DOMAIN ToLower THEN ToLower[c] ELSE c

UpperChar(c) == IF c \in DOMAIN ToUpper THEN ToUpper[c] ELSE c

RECURSIVE toLowerCase(_)
toLowerCase(s) ==
    IF s = "" THEN "" ELSE LowerChar(Head(s)) \o toLowerCase(Tail(s))

RECURSIVE toUpperCase(_)
toUpperCase(s) ==
    IF s = "" THEN "" ELSE UpperChar(Head(s)) \o toUpperCase(Tail(s))

\* String.prototype.includes, startsWith, endsWith
strIncludes(s, sub) ==
    \E i \in 1..(Len(s) - Len(sub) + 1) : SubSeq(s, i, i + Len(sub) - 1) = sub

startsWith(s, pre) == Len(pre) <= Len(s) /\ SubSeq(s, 1, Len(pre)) = pre

endsWith(s, suf) ==
    Len(suf) <= Len(s) /\ SubSeq(s, Len(s) - Len(suf) + 1, Len(s)) = suf

\* validateInput of getProjectName accepts the name: /^[a-zA-Z0-9-_\.]+$/, at
\* most 50 characters (every modelled name is shorter), no hyphen at either end
NameChars == CharsOf(LowerLetters \o UpperLetters \o Digits \o "-_.")

validateInput(value) ==
    /\ value # ""
    /\ \A i \in 1..Len(value) : At(value, i) \in NameChars
    /\ ~startsWith(value, "-")
    /\ ~endsWith(value, "-")

\* The class a-z0-9
LowerAlnum == CharsOf(LowerLetters \o Digits)

\* s.replace(/[^a-z0-9]/g, r): every character outside a-z0-9 becomes r
RECURSIVE replaceNonAlnum(_, _)
replaceNonAlnum(s, r) ==
    IF s = "" THEN ""
    ELSE (IF Head(s) \in LowerAlnum THEN Head(s) ELSE r)
             \o replaceNonAlnum(Tail(s), r)

\* The class [-_\s] of the Pascal and camel expressions
IsSeparator(c) == c \in {"-", "_", " "}

\* Last position of the run of separators that starts at position i
RunEnd(s, i) ==
    CHOOSE j \in i..Len(s) :
        /\ \A k \in i..j : IsSeparator(At(s, k))
        /\ (j = Len(s) \/ ~IsSeparator(At(s, j + 1)))

\* What String.replace inserts when its callback returns undefined
Undefined == "undefined"

\* (_, c) => c ? c.toUpperCase() : ''        hasC: the group (.)? matched
pascalCallback(hasC, c, index) == IF hasC THEN toUpperCase(c) ELSE ""

\* (_, c, index) => index === 0 ? c?.toLowerCase() : c?.toUpperCase()
camelCallback(hasC, c, index) ==
    IF index = 0
    THEN (IF hasC THEN toLowerCase(c) ELSE Undefined)
    ELSE (IF hasC THEN toUpperCase(c) ELSE Undefined)

\* s.replace(/[-_\s]+(.)?/g, callback) from position i on: each run of
\* separators, with the character after it when there is one, is replaced by
\* what the callback returns for that character and the offset of the run
RECURSIVE replaceSeparatorRuns(_, _, _)
replaceSeparatorRuns(s, i, style) ==
    IF i > Len(s) THEN ""
    ELSE IF ~IsSeparator(At(s, i)) THEN At(s, i) \o replaceSeparatorRuns(s, i + 1, style)
    ELSE LET j == RunEnd(s, i)
             hasC == j < Len(s)
             c == IF hasC THEN At(s, j + 1) ELSE ""
         IN (IF style = "pascal" THEN pascalCallback(hasC, c, i - 1)
                                 ELSE camelCallback(hasC, c, i - 1))
                \o replaceSeparatorRuns(s, IF hasC THEN j + 2 ELSE j + 1, style)

kebab(name) == replaceNonAlnum(toLowerCase(name), "-")
snake(name) == replaceNonAlnum(toLowerCase(name), "_")
pascal(name) == replaceSeparatorRuns(name, 1, "pascal")
camel(name) == replaceSeparatorRuns(name, 1, "camel")

\* a || b on strings: the empty string and undefined are both falsy
OrElse(a, b) == IF a = "" THEN b ELSE a

\* new Date() and process.env when the project is created
CurrentYear == "2026"
CurrentDate == "2026-11-04"
AuthorName == OrElse("", OrElse("", "Developer"))

NoConfig == [packageManager |-> "", database |-> "", authentication |-> "",
             cssFramework |-> "", features |-> <<>>]

\* The replacements object, in the order Object.entries lists it
Replacements(name, frameworkName, sc, config) ==
    << [placeholder |-> "{{PROJECT_NAME}}", replacement |-> name],
       [placeholder |-> "{{PROJECT_NAME_KEBAB}}", replacement |-> kebab(name)],
       [placeholder |-> "{{PROJECT_NAME_SNAKE}}", replacement |-> snake(name)],
       [placeholder |-> "{{PROJECT_NAME_PASCAL}}", replacement |-> pascal(name)],
       [placeholder |-> "{{PROJECT_NAME_CAMEL}}", replacement |-> camel(name)],
       [placeholder |-> "{{FRAMEWORK}}", replacement |-> frameworkName],
       [placeholder |-> "{{SCOPE}}", replacement |-> sc],
       [placeholder |-> "{{CURRENT_YEAR}}", replacement |-> CurrentYear],
       [placeholder |-> "{{CURRENT_DATE}}", replacement |-> CurrentDate],
       [placeholder |-> "{{PACKAGE_MANAGER}}",
        replacement |-> OrElse(config.packageManager, "npm")],
       [placeholder |-> "{{DATABASE}}",
        replacement |-> OrElse(config.database, "none")],
       [placeholder |-> "{{AUTHENTICATION}}",
        replacement |-> OrElse(config.authentication, "none")],
       [placeholder |-> "{{CSS_FRAMEWORK}}",
        replacement |-> OrElse(config.cssFramework, "plain")],
       [placeholder |-> "{{AUTHOR_NAME}}", replacement |-> AuthorName],
       [placeholder |-> "{{DESCRIPTION}}",
        replacement |-> "A " \o frameworkName \o " project created with KickStart Hub"] >>

\* The value the table gives a placeholder
ValueOf(table, placeholder) ==
    (CHOOSE e \in Range(table) : e.placeholder = placeholder).replacement

FrameworkName == "React"

\* The matches of new RegExp(placeholder, 'g') in content, left to right and
\* not overlapping, each replaced by the replacement
RECURSIVE replaceMatches(_, _, _)
replaceMatches(content, placeholder, replacement) ==
    IF Len(content) < Len(placeholder) THEN content
    ELSE IF startsWith(content, placeholder)
         THEN replacement
                  \o replaceMatches(SubSeq(content, Len(placeholder) + 1, Len(content)),
                                    placeholder, replacement)
         ELSE Head(content) \o replaceMatches(Tail(content), placeholder, replacement)

FirstMatch(content, placeholder) ==
    CHOOSE i \in 1..Len(content) :
        /\ SubSeq(content, i, i + Len(placeholder) - 1) = placeholder
        /\ \A j \in 1..(i - 1) : SubSeq(content, j, j + Len(placeholder) - 1) # placeholder

MutantReplaceFirst(content, placeholder, replacement) ==
    IF ~strIncludes(content, placeholder) THEN content
    ELSE SubSeq(content, 1, FirstMatch(content, placeholder) - 1) \o replacement
             \o SubSeq(content, FirstMatch(content, placeholder) + Len(placeholder),
                       Len(content))

\* content.replace(new RegExp(placeholder, 'g'), replacement)
replace(content, placeholder, replacement) ==
    replaceMatches(content, placeholder, replacement)

\* The loop over Object.entries(replacements) from entry i on
RECURSIVE applyReplacements(_, _, _)
applyReplacements(file, table, i) ==
    IF i > Len(table) THEN file
    ELSE IF strIncludes(file.content, table[i].placeholder)
         THEN applyReplacements(
                  [content |-> replace(file.content, table[i].placeholder,
                                       table[i].replacement),
                   modified |-> TRUE], table, i + 1)
         ELSE applyReplacements(file, table, i + 1)

\* let content = await fs.readFile(filePath, 'utf8'); let modified = false
\* followed by the loop
processFile(content, table) ==
    applyReplacements([content |-> content, modified |-> FALSE], table, 1)

MutantAlwaysWrite(file) == TRUE

\* if (modified) await fs.writeFile(filePath, content)
ShouldWrite(file) == file.modified

binaryExtensions ==
    {".png", ".jpg", ".jpeg", ".gif", ".ico", ".svg", ".webp", ".woff", ".woff2",
     ".ttf", ".eot", ".otf", ".mp4", ".mp3", ".wav", ".avi", ".mov", ".pdf", ".zip",
     ".tar", ".gz", ".rar", ".exe", ".dll", ".so", ".dylib"}

isBinaryFile(filePath) ==
    \E ext \in binaryExtensions : endsWith(toLowerCase(filePath), ext)

\* if (isBinaryFile(relativePath) || relativePath.includes('node_modules')) continue
Skipped(relativePath) ==
    isBinaryFile(relativePath) \/ strIncludes(relativePath, "node_modules")

\* The regular files under projectPath at any depth, by relative path
getAllFiles(files) == DOMAIN files

\* The effect of processTemplateFiles(projectPath, projectName, frameworkName,
\* scope, config) on the files under projectPath
processTemplateFiles(frameworkName, sc, config) ==
    /\ \E table \in {Replacements(projectName, frameworkName, sc, config)} :
       \E read \in {{p \in getAllFiles(projectFiles) : ~Skipped(p)}} :
       \E result \in {[p \in read |-> processFile(projectFiles[p], table)]} :
       \E wrote \in {{p \in read : ShouldWrite(result[p])}} :
          /\ replacements' = table
          /\ visited' = read
          /\ written' = wrote
          /\ projectFiles' = [p \in DOMAIN projectFiles |->
                                 IF p \in wrote THEN result[p].content
                                 ELSE projectFiles[p]]
    /\ filesBefore' = projectFiles
    /\ runs' = runs + 1
    /\ UNCHANGED projectName

\* One processTemplateFiles call.
ProcessTemplateFiles ==
    /\ runs < MaxRuns
    /\ processTemplateFiles(FrameworkName, "minimal", NoConfig)
    /\ UNCHANGED outsideProcessor

\* The materialised trees: up to MaxTreeFiles of these paths, each holding one
\* of these texts
TreePaths ==
    {"README.md", "logo.PNG", "src/lib/app.js", "node_modules/x.js",
     "docs/node_modules.md"}

TreeTexts ==
    {"plain text", "{{PROJECT_NAME}}+{{PROJECT_NAME}}",
     "{{PROJECT_NAME_KEBAB}}/{{SCOPE}}", "{{{{PROJECT_NAME}}}}", "{{UNKNOWN}}"}

Trees ==
    UNION {[S -> TreeTexts] : S \in {S \in SUBSET TreePaths :
                                         Cardinality(S) \in 1..MaxTreeFiles}}

SubstNames == {"demo-app", "PROJECT_NAME"}

SubstInit ==
    /\ projectName \in SubstNames
    /\ replacements = <<>>
    /\ projectFiles \in Trees
    /\ filesBefore = <<>>
    /\ visited = {}
    /\ written = {}
    /\ runs = 0

\* =========================================================================
\* createProjectFromGitHub and the configuration overlay
\* =========================================================================
\* f with path set to value
Put(f, path, value) ==
    [x \in DOMAIN f \cup {path} |-> IF x = path THEN value ELSE f[x]]

\* fs.writeFile of several files by one writer; a tree is its files with the
\* writer of each
WriteAll(tree, files, writer) ==
    [files |-> [x \in DOMAIN tree.files \cup DOMAIN files |->
                   IF x \in DOMAIN files THEN files[x] ELSE tree.files[x]],
     origin |-> [x \in DOMAIN tree.files \cup DOMAIN files |->
                    IF x \in DOMAIN files THEN writer ELSE tree.origin[x]]]

EmptyTree == [files |-> <<>>, origin |-> <<>>]

\* What projectPath holds before the call when it is not empty
PriorOccupant ==
    Put(Put(Put(<<>>, "README.md", "old readme"), "old.txt", "{{PROJECT_NAME}} notes"),
        ".yarnrc.yml", "old yarn settings")

\* What the template of the call holds
TemplateFiles ==
    Put(Put(<<>>, "README.md", "# {{PROJECT_NAME}}: {{PROJECT_NAME}}"), "src/app.js", "main()")

\* framework.tags of the framework of the call
FrameworkTags == {"javascript", "frontend"}

\* The order of the awaits inside withProgress
MutantOverlayBeforeProcessing(step) ==
    CASE step = "fetch" -> "overlay"
      [] step = "overlay" -> "subst"
      [] step = "subst" -> "post"
      [] step = "post" -> "done"

StepAfter(step) ==
    CASE step = "fetch" -> "subst"
      [] step = "subst" -> "overlay"
      [] step = "overlay" -> "post"
      [] step = "post" -> "done"

\* The answers showWarningMessage can resolve to: a button, or undefined when
\* the dialog is dismissed
DialogAnswers == {"Overwrite", "Merge", "Cancel", "dismissed"}

MutantKeepOnOverwrite(answer, tree) == tree

\* if (overwrite === 'Overwrite') await fs.remove(projectPath)
AfterAnswer(answer, tree) ==
    IF answer = "Overwrite" THEN EmptyTree ELSE tree

\* if (overwrite === 'Cancel') return
Returns(answer) == answer = "Cancel"

\* createProjectFromGitHub up to withProgress: the collision dialog.
CheckTargetDirectory ==
    /\ createPc = "start"
    /\ \E answer \in (IF destExisted THEN DialogAnswers ELSE {"none"}) :
        /\ choice' = answer
        /\ IF destExisted /\ Returns(answer)
           THEN /\ createPc' = "cancelled"
                /\ UNCHANGED <<projectFiles, fileOrigin>>
           ELSE /\ createPc' = "fetch"
                /\ projectFiles' = AfterAnswer(answer, [files |-> projectFiles,
                                                        origin |-> fileOrigin]).files
                /\ fileOrigin' = AfterAnswer(answer, [files |-> projectFiles,
                                                      origin |-> fileOrigin]).origin
    /\ UNCHANGED <<destExisted, priorFiles, stepLog, substSaw, additionalConfig,
                   failing, featureLog, featureErr>>
    /\ UNCHANGED <<projectName, replacements, filesBefore, visited, written, runs>>
    /\ UNCHANGED outsideCreate

\* The files a downloadTemplateFromGitHub call wrote when it returns with the
\* whole template ("ok"), returns having skipped a sub-directory
\* ("incomplete"), throws after the first file ("partial") or throws before
\* any file ("failed")
Downloaded(outcome) ==
    CASE outcome = "ok" -> TemplateFiles
      [] outcome \in {"incomplete", "partial"} -> [p \in {"README.md"} |-> TemplateFiles[p]]
      [] outcome = "failed" -> <<>>

\* await downloadTemplateFromGitHub(framework.key, scope, projectPath, progress)
DownloadStep ==
    /\ createPc = "fetch"
    /\ stepLog' = Append(stepLog, "fetch")
    /\ \E outcome \in {"ok", "incomplete", "partial", "failed"} :
        /\ projectFiles' = WriteAll([files |-> projectFiles, origin |-> fileOrigin],
                                    Downloaded(outcome), "template").files
        /\ fileOrigin' = WriteAll([files |-> projectFiles, origin |-> fileOrigin],
                                  Downloaded(outcome), "template").origin
        /\ createPc' = IF outcome \in {"ok", "incomplete"} THEN StepAfter("fetch")
                       ELSE "threw"
    /\ UNCHANGED <<destExisted, priorFiles, choice, substSaw, additionalConfig,
                   failing, featureLog, featureErr>>
    /\ UNCHANGED <<projectName, replacements, filesBefore, visited, written, runs>>
    /\ UNCHANGED outsideCreate

\* await processTemplateFiles(projectPath, projectName, framework.name, scope,
\*                            additionalConfig)
ProcessStep ==
    /\ createPc = "subst"
    /\ stepLog' = Append(stepLog, "subst")
    /\ processTemplateFiles(FrameworkName, "minimal", additionalConfig)
    /\ substSaw' = {<<p, fileOrigin[p]>> : p \in visited'}
    /\ createPc' = StepAfter("subst")
    /\ UNCHANGED <<destExisted, priorFiles, choice, fileOrigin, additionalConfig,
                   failing, featureLog, featureErr>>
    /\ UNCHANGED outsideCreate

\* applyPackageManagerConfig: the file of the package manager chosen
applyPackageManagerConfig(tree, packageManager) ==
    IF packageManager = "yarn"
    THEN WriteAll(tree, Put(<<>>, ".yarnrc.yml", "nodeLinker: node-modules"), "overlay")
    ELSE tree

Features == {"linting", "testing", "docs"}

\* The file the configurator of a feature writes for a JavaScript framework
FeatureFiles(feature) ==
    CASE feature = "linting" -> Put(<<>>, ".eslintrc.json", "eslint settings")
      [] feature = "testing" -> Put(<<>>, "jest.config.js", "jest settings")
      [] feature = "docs" -> Put(<<>>, "docs/README.md", "# {{PROJECT_NAME}} Documentation")

\* The body of the try of one loop round: the switch over the feature
ApplyFeature(feature, st) ==
    IF feature \in failing
    THEN [st EXCEPT !.err = TRUE,
                    !.log = Append(@, [feature |-> feature, outcome |-> "threw"])]
    ELSE [st EXCEPT !.tree = WriteAll(@, FeatureFiles(feature), "overlay"),
                    !.log = Append(@, [feature |-> feature, outcome |-> "applied"])]

MutantFeatureErrorEscapes(st) == st

\* catch (error) { console.error(`Error applying feature ${feature}:`, error) }
CatchFeatureError(st) == [st EXCEPT !.err = FALSE]

\* for (const feature of features) { try { ... } catch (error) { ... } }
RECURSIVE applyFeatureConfigurations(_, _, _)
applyFeatureConfigurations(features, i, st) ==
    IF i > Len(features) \/ st.err THEN st
    ELSE applyFeatureConfigurations(features, i + 1,
                                    CatchFeatureError(ApplyFeature(features[i], st)))

\* applyAdditionalConfigurations for a configuration that selects no database
\* and no CSS framework; its own catch keeps every error inside
applyAdditionalConfigurations(tree, config) ==
    LET afterPM == IF config.packageManager # "" /\ "javascript" \in FrameworkTags
                   THEN applyPackageManagerConfig(tree, config.packageManager)
                   ELSE tree
        start == [tree |-> afterPM, log |-> <<>>, err |-> FALSE]
    IN IF config.features # <<>>
       THEN applyFeatureConfigurations(config.features, 1, start)
       ELSE start

\* await applyAdditionalConfigurations(projectPath, framework, additionalConfig)
ConfigureStep ==
    /\ createPc = "overlay"
    /\ stepLog' = Append(stepLog, "overlay")
    /\ \E r \in {applyAdditionalConfigurations([files |-> projectFiles,
                                                origin |-> fileOrigin],
                                               additionalConfig)} :
        /\ projectFiles' = r.tree.files
        /\ fileOrigin' = r.tree.origin
        /\ featureLog' = r.log
        /\ featureErr' = r.err
    /\ createPc' = StepAfter("overlay")
    /\ UNCHANGED <<destExisted, priorFiles, choice, substSaw, additionalConfig, failing>>
    /\ UNCHANGED <<projectName, replacements, filesBefore, visited, written, runs>>
    /\ UNCHANGED outsideCreate

\* createGitignoreFile and createEnvTemplate: the text each one writes
GeneratedFiles ==
    Put(Put(<<>>, ".gitignore", "node_modules/"), ".env.example", "APP_NAME={{PROJECT_NAME}}")

\* runPostCreationScripts: git init (optional: a failure is caught and logged),
\* then .gitignore and .env.example are created when absent
runPostCreationScripts(tree, gitWorks) ==
    WriteAll(WriteAll(tree,
                      IF gitWorks THEN Put(<<>>, ".git/HEAD", "ref: refs/heads/master")
                      ELSE <<>>,
                      "post"),
             [p \in DOMAIN GeneratedFiles \ DOMAIN tree.files |-> GeneratedFiles[p]],
             "post")

\* await runPostCreationScripts(projectPath, framework, additionalConfig)
PostCreationStep ==
    /\ createPc = "post"
    /\ stepLog' = Append(stepLog, "post")
    /\ \E gitWorks \in BOOLEAN :
       \E r \in {runPostCreationScripts([files |-> projectFiles, origin |-> fileOrigin],
                                        gitWorks)} :
        /\ projectFiles' = r.files
        /\ fileOrigin' = r.origin
    /\ createPc' = StepAfter("post")
    /\ UNCHANGED <<destExisted, priorFiles, choice, substSaw, additionalConfig,
                   failing, featureLog, featureErr>>
    /\ UNCHANGED <<projectName, replacements, filesBefore, visited, written, runs>>
    /\ UNCHANGED outsideCreate

\* The feature selections: up to MaxFeatures distinct features in any order
FeatureLists ==
    {fl \in UNION {[1..n -> Features] : n \in 0..MaxFeatures} :
        \A i, k \in 1..Len(fl) : i # k => fl[i] # fl[k]}

Configs ==
    {[NoConfig EXCEPT !.packageManager = pm, !.features = fl] :
        pm \in {"", "yarn"}, fl \in FeatureLists}

CreateInputs(configs) ==
    /\ destExisted \in BOOLEAN
    /\ priorFiles \in (IF destExisted THEN {<<>>, PriorOccupant} ELSE {<<>>})
    /\ projectFiles = priorFiles
    /\ fileOrigin = [p \in DOMAIN priorFiles |-> "prior"]
    /\ choice = "none"
    /\ stepLog = <<>>
    /\ substSaw = {}
    /\ additionalConfig \in configs
    /\ failing \in SUBSET Range(additionalConfig.features)
    /\ featureLog = <<>>
    /\ featureErr = FALSE
    /\ projectName = "demo-app"
    /\ replacements = <<>>
    /\ filesBefore = <<>>
    /\ visited = {}
    /\ written = {}
    /\ runs = 0

CreateInit == createPc = "start" /\ CreateInputs(Configs)

\* createProjectFromGitHub before any call, for the specifications that do
\* not run it.
FlowIdle ==
    /\ createPc = "idle"
    /\ destExisted = FALSE
    /\ priorFiles = <<>>
    /\ choice = "none"
    /\ stepLog = <<>>
    /\ fileOrigin = <<>>
    /\ substSaw = {}
    /\ additionalConfig = NoConfig
    /\ failing = {}
    /\ featureLog = <<>>
    /\ featureErr = FALSE

\* The characters project names are drawn from: a letter of each case, a
\* digit, the three separators of the derivations and the dot
Alphabet == {"a", "B", "1", "-", "_", ".", " "}

RECURSIVE NamesOfLen(_)
NamesOfLen(n) ==
    IF n = 0 THEN {""} ELSE {s \o c : s \in NamesOfLen(n - 1), c \in Alphabet}

Names == {"My Cool App"} \cup UNION {NamesOfLen(n) : n \in 1..MaxNameLen}

\* The first statement of processTemplateFiles after the file walk: the
\* replacement table of the project name.
BuildReplacements ==
    /\ replacements = <<>>
    /\ replacements' = Replacements(projectName, FrameworkName, "minimal", NoConfig)
    /\ UNCHANGED <<projectName, projectFiles, filesBefore, visited, written, runs>>
    /\ UNCHANGED outsideProcessor

TokensInit ==
    /\ projectName \in Names
    /\ replacements = <<>>
    /\ projectFiles = <<>>
    /\ filesBefore = <<>>
    /\ visited = {}
    /\ written = {}
    /\ runs = 0

\* The processor before any call, for the specifications that do not run it.
ProcIdle ==
    /\ projectName = "demo"
    /\ replacements = <<>>
    /\ projectFiles = <<>>
    /\ filesBefore = <<>>
    /\ visited = {}
    /\ written = {}
    /\ runs = 0

\* =========================================================================
\*                         createProject: THE WIZARD
\* =========================================================================
\* The keys of PROJECT_SCOPES
PROJECT_SCOPES == {"minimal", "standard", "enterprise"}

\* The scopes a descriptor of the registry can list
ScopeLists ==
    {<<"minimal">>, <<"minimal", "standard", "enterprise">>, <<"minimal", "lite">>}

\* catch (error) of createProject: the message is shown and createProject
\* returns
MutantErrorEscapes(msg) == [outcome |-> "rejected", shown |-> <<>>]

Caught(msg) ==
    [outcome |-> "returned", shown |-> <<"Error creating project: " \o msg>>]

\* A throw inside the try block of createProject
Throw(msg) ==
    /\ wizPc' = "ended"
    /\ wizStop' = "error"
    /\ wizOutcome' = Caught(msg).outcome
    /\ errorLog' = errorLog \o Caught(msg).shown

\* if (!x) return
ReturnEarly(at) ==
    /\ wizPc' = "ended"
    /\ wizStop' = at
    /\ wizOutcome' = "returned"
    /\ UNCHANGED errorLog

\* The next statement of createProject
Proceed(to) ==
    /\ wizPc' = to
    /\ UNCHANGED <<wizStop, wizOutcome, errorLog>>

\* await updateTemplateRegistry()
WizUpdateRegistry ==
    /\ wizPc = "registry"
    /\ regOutcome = "none"
    /\ UpdateTemplateRegistry

\* updateTemplateRegistry threw: no registry file after a failed refresh
RegistryFailed ==
    /\ wizPc = "registry"
    /\ regOutcome = "threw"
    /\ Throw("Could not fetch templates from GitHub.")
    /\ UNCHANGED <<frameworkScopes, wizScope, wizLog, dialogShown>>
    /\ UNCHANGED outsideWizard

\* const framework = await selectFrameworkWithCategory(); if (!framework) return
SelectFrameworkWithCategory ==
    /\ wizPc = "registry"
    /\ regOutcome = "returned"
    /\ wizLog' = Append(wizLog, "selectFrameworkWithCategory")
    /\ IF getTemplateRegistry(extensionFound, registryFile).kind = "null"
       THEN Throw("Template registry not available.")
       ELSE \E answer \in {"noCategory", "noFramework", "picked"} :
               IF answer = "picked" THEN Proceed("scope")
               ELSE ReturnEarly("framework")
    /\ UNCHANGED <<frameworkScopes, wizScope, dialogShown>>
    /\ UNCHANGED outsideWizard

\* const scope = await selectProjectScope(framework); if (!scope) return
SelectProjectScope ==
    /\ wizPc = "scope"
    /\ wizLog' = Append(wizLog, "selectProjectScope")
    /\ \E selected \in Range(frameworkScopes) \cup {"none"} :
        /\ wizScope' = selected
        /\ IF selected = "none" THEN ReturnEarly("scope") ELSE Proceed("name")
    /\ UNCHANGED <<frameworkScopes, dialogShown>>
    /\ UNCHANGED outsideWizard

\* const projectName = await getProjectName(); if (!projectName) return
\* The name the user types is projectName.
GetProjectName ==
    /\ wizPc = "name"
    /\ wizLog' = Append(wizLog, "getProjectName")
    /\ \E typed \in BOOLEAN :
        IF typed THEN Proceed("location") ELSE ReturnEarly("name")
    /\ UNCHANGED <<frameworkScopes, wizScope, dialogShown>>
    /\ UNCHANGED outsideWizard

\* What the user does at selectTargetLocation
LocationAnswers ==
    {"dismissed", "folder", "noFolder", "workspace", "noWorkspace", "default",
     "defaultFailed"}

\* selectTargetLocation(): a path, or null
targetLocation(answer) ==
    IF answer \in {"folder", "workspace", "default"} THEN "dir" ELSE "null"

\* const targetLocation = await selectTargetLocation(); if (!targetLocation) return
SelectTargetLocation ==
    /\ wizPc = "location"
    /\ wizLog' = Append(wizLog, "selectTargetLocation")
    /\ \E answer \in LocationAnswers :
        IF targetLocation(answer) # "null"
        THEN Proceed("config")
        ELSE /\ wizPc' = "ended"
             /\ wizStop' = "location"
             /\ wizOutcome' = "returned"
             /\ errorLog' = IF answer = "defaultFailed"
                            THEN Append(errorLog,
                                        "Could not create default projects directory")
                            ELSE errorLog
    /\ UNCHANGED <<frameworkScopes, wizScope, dialogShown>>
    /\ UNCHANGED outsideWizard

\* const additionalConfig = await getAdditionalConfiguration(framework): every
\* prompt of it is optional.  What the user picks is additionalConfig.
GetAdditionalConfiguration ==
    /\ wizPc = "config"
    /\ wizLog' = Append(wizLog, "getAdditionalConfiguration")
    /\ Proceed("confirm")
    /\ UNCHANGED <<frameworkScopes, wizScope, dialogShown>>
    /\ UNCHANGED outsideWizard

\* const confirmed = await confirmProjectCreation(...); if (!confirmed) return
\* scopeConfig = PROJECT_SCOPES[scope]; the message reads scopeConfig.icon
ConfirmProjectCreation ==
    /\ wizPc = "confirm"
    /\ wizLog' = Append(wizLog, "confirmProjectCreation")
    /\ IF wizScope \notin PROJECT_SCOPES
       THEN /\ Throw("Cannot read properties of undefined (reading 'icon')")
            /\ UNCHANGED dialogShown
       ELSE /\ dialogShown' = TRUE
            /\ \E answer \in {"Create Project", "Cancel", "dismissed"} :
                IF answer = "Create Project" THEN Proceed("create")
                ELSE ReturnEarly("confirm")
    /\ UNCHANGED <<frameworkScopes, wizScope>>
    /\ UNCHANGED outsideWizard

\* await createProjectFromGitHub(...): the call starts
InvokeCreate ==
    /\ wizPc = "create"
    /\ createPc = "idle"
    /\ createPc' = "start"
    /\ wizLog' = Append(wizLog, "createProjectFromGitHub")
    /\ Proceed("creating")
    /\ UNCHANGED <<frameworkScopes, wizScope, dialogShown>>
    /\ UNCHANGED <<destExisted, priorFiles, choice, stepLog, fileOrigin, substSaw,
                   additionalConfig, failing, featureLog, featureErr>>
    /\ UNCHANGED <<regVars, fetchVars, procVars, jobVars, dlVars>>

\* await createProjectFromGitHub(...): the call settles
CreateSettled ==
    /\ wizPc = "creating"
    /\ createPc \in {"done", "cancelled", "threw"}
    /\ IF createPc = "threw"
       THEN Throw("Template not found or could not be downloaded")
       ELSE /\ wizPc' = "ended"
            /\ wizStop' = createPc
            /\ wizOutcome' = "returned"
            /\ UNCHANGED errorLog
    /\ UNCHANGED <<frameworkScopes, wizScope, wizLog, dialogShown>>
    /\ UNCHANGED outsideWizard

\* The configurations the wizard is run with
WizardConfigs ==
    {NoConfig, [NoConfig EXCEPT !.packageManager = "yarn", !.features = <<"docs">>]}

WizardInit ==
    /\ wizPc = "registry"
    /\ frameworkScopes \in ScopeLists
    /\ wizScope = "none"
    /\ wizLog = <<>>
    /\ dialogShown = FALSE
    /\ wizStop = "none"
    /\ wizOutcome = "none"
    /\ errorLog = <<>>

\* createProject before any call, for the specifications that do not run it.
WizIdle ==
    /\ wizPc = "idle"
    /\ frameworkScopes = <<"minimal">>
    /\ wizScope = "none"
    /\ wizLog = <<>>
    /\ dialogShown = FALSE
    /\ wizStop = "none"
    /\ wizOutcome = "none"
    /\ errorLog = <<>>

\* =========================================================================
\*                     createProject JOBS AT THE SAME TIME
\* =========================================================================
\* The jobs: every registered command runs createProject, and a command can
\* be invoked while an earlier one is still at an await.
Jobs == {"first", "second"}

\* The project paths the jobs can be given
Dests == {"projects/demo-app", "projects/other"}

NoTemp == 0 - 1

\* fs.writeFile / fs.copy / fs.remove under the project path of a job
Wrote(j) == Append(jobWrites, <<j, jobDest[j]>>)

\* A command is invoked: the wizard of the job ends with a project path
Invoke(j) ==
    /\ jobPc[j] = "idle"
    /\ \E d \in Dests : jobDest' = [jobDest EXCEPT ![j] = d]
    /\ jobPc' = [jobPc EXCEPT ![j] = "check"]
    /\ UNCHANGED <<jobLeft, jobTemp, jobOk, jobDirs, tempDirs, jobClock, jobWrites>>
    /\ UNCHANGED outsideJobs

\* createProjectFromGitHub: the collision dialog
CheckTarget(j) ==
    /\ jobPc[j] = "check"
    /\ IF jobDest[j] \in jobDirs
       THEN \E answer \in DialogAnswers :
               IF Returns(answer)
               THEN /\ jobPc' = [jobPc EXCEPT ![j] = "ended"]
                    /\ UNCHANGED <<jobDirs, jobWrites>>
               ELSE /\ jobPc' = [jobPc EXCEPT ![j] = "api"]
                    /\ IF answer = "Overwrite"
                       THEN /\ jobDirs' = jobDirs \ {jobDest[j]}
                            /\ jobWrites' = Wrote(j)
                       ELSE UNCHANGED <<jobDirs, jobWrites>>
       ELSE /\ jobPc' = [jobPc EXCEPT ![j] = "api"]
            /\ UNCHANGED <<jobDirs, jobWrites>>
    /\ UNCHANGED <<jobDest, jobLeft, jobTemp, jobOk, tempDirs, jobClock>>
    /\ UNCHANGED outsideJobs

\* downloadTemplateViaAPI: ensureDir(projectPath), then the directory listing
ApiList(j) ==
    /\ jobPc[j] = "api"
    /\ jobDirs' = jobDirs \cup {jobDest[j]}
    /\ \E listed \in BOOLEAN :
        jobPc' = [jobPc EXCEPT ![j] = IF listed THEN "files" ELSE "git"]
    /\ UNCHANGED <<jobDest, jobLeft, jobTemp, jobOk, tempDirs, jobClock, jobWrites>>
    /\ UNCHANGED outsideJobs

\* downloadFileRecursively of one file: downloadFile, then fs.writeFile; after
\* the last one the API pass returns
ApiWrite(j) ==
    /\ jobPc[j] = "files"
    /\ IF jobLeft[j] = 0
       THEN /\ jobPc' = [jobPc EXCEPT ![j] = "finish"]
            /\ UNCHANGED <<jobLeft, jobWrites>>
       ELSE \E downloaded \in BOOLEAN :
               IF downloaded
               THEN /\ jobWrites' = Wrote(j)
                    /\ jobLeft' = [jobLeft EXCEPT ![j] = @ - 1]
                    /\ UNCHANGED jobPc
               ELSE /\ jobPc' = [jobPc EXCEPT ![j] = "git"]
                    /\ UNCHANGED <<jobLeft, jobWrites>>
    /\ UNCHANGED <<jobDest, jobTemp, jobOk, jobDirs, tempDirs, jobClock>>
    /\ UNCHANGED outsideJobs

\* path.join(os.tmpdir(), `kickstart-${Date.now()}`)
stagingDir(j, t) == t

\* downloadTemplateViaGit: const tempDir = ...
GitStart(j) ==
    /\ jobPc[j] = "git"
    /\ jobTemp' = [jobTemp EXCEPT ![j] = stagingDir(j, jobClock)]
    /\ jobPc' = [jobPc EXCEPT ![j] = "clone"]
    /\ UNCHANGED <<jobDest, jobLeft, jobOk, jobDirs, tempDirs, jobClock, jobWrites>>
    /\ UNCHANGED outsideJobs

\* git clone --sparse into tempDir and git sparse-checkout set: git refuses a
\* directory that exists and is not empty
GitClone(j) ==
    /\ jobPc[j] = "clone"
    /\ \E reachable \in BOOLEAN :
        IF reachable /\ jobTemp[j] \notin tempDirs
        THEN /\ tempDirs' = tempDirs \cup {jobTemp[j]}
             /\ jobPc' = [jobPc EXCEPT ![j] = "copy"]
             /\ UNCHANGED jobOk
        ELSE /\ jobOk' = [jobOk EXCEPT ![j] = FALSE]
             /\ jobPc' = [jobPc EXCEPT ![j] = "cleanup"]
             /\ UNCHANGED tempDirs
    /\ UNCHANGED <<jobDest, jobLeft, jobTemp, jobDirs, jobClock, jobWrites>>
    /\ UNCHANGED outsideJobs

\* if (await fs.pathExists(sourcePath)) await fs.copy(sourcePath, projectPath)
\* else throw
GitCopy(j) ==
    /\ jobPc[j] = "copy"
    /\ IF jobTemp[j] \in tempDirs
       THEN /\ jobWrites' = Wrote(j)
            /\ jobDirs' = jobDirs \cup {jobDest[j]}
            /\ UNCHANGED jobOk
       ELSE /\ jobOk' = [jobOk EXCEPT ![j] = FALSE]
            /\ UNCHANGED <<jobWrites, jobDirs>>
    /\ jobPc' = [jobPc EXCEPT ![j] = "cleanup"]
    /\ UNCHANGED <<jobDest, jobLeft, jobTemp, tempDirs, jobClock>>
    /\ UNCHANGED outsideJobs

\* finally { if (await fs.pathExists(tempDir)) await fs.remove(tempDir) }
GitCleanup(j) ==
    /\ jobPc[j] = "cleanup"
    /\ tempDirs' = tempDirs \ {jobTemp[j]}
    /\ jobPc' = [jobPc EXCEPT ![j] = IF jobOk[j] THEN "finish" ELSE "ended"]
    /\ UNCHANGED <<jobDest, jobLeft, jobTemp, jobOk, jobDirs, jobClock, jobWrites>>
    /\ UNCHANGED outsideJobs

\* processTemplateFiles, applyAdditionalConfigurations, runPostCreationScripts
FinishJob(j) ==
    /\ jobPc[j] = "finish"
    /\ jobWrites' = Wrote(j)
    /\ jobPc' = [jobPc EXCEPT ![j] = "ended"]
    /\ UNCHANGED <<jobDest, jobLeft, jobTemp, jobOk, jobDirs, tempDirs, jobClock>>
    /\ UNCHANGED outsideJobs

\* A millisecond passes
TickClock ==
    /\ jobClock < MaxClock
    /\ jobClock' = jobClock + 1
    /\ UNCHANGED <<jobPc, jobDest, jobLeft, jobTemp, jobOk, jobDirs, tempDirs,
                   jobWrites>>
    /\ UNCHANGED outsideJobs

JobsInit ==
    /\ jobPc = [j \in Jobs |-> "idle"]
    /\ jobDest = [j \in Jobs |-> "projects/demo-app"]
    /\ jobLeft = [j \in Jobs |-> MaxJobFiles]
    /\ jobTemp = [j \in Jobs |-> NoTemp]
    /\ jobOk = [j \in Jobs |-> TRUE]
    /\ jobDirs \in SUBSET Dests
    /\ tempDirs = {}
    /\ jobClock = 0
    /\ jobWrites = <<>>

\* No command invoked, for the specifications of one call.
JobsIdle ==
    /\ jobPc = [j \in Jobs |-> "idle"]
    /\ jobDest = [j \in Jobs |-> "projects/demo-app"]
    /\ jobLeft = [j \in Jobs |-> 0]
    /\ jobTemp = [j \in Jobs |-> NoTemp]
    /\ jobOk = [j \in Jobs |-> TRUE]
    /\ jobDirs = {}
    /\ tempDirs = {}
    /\ jobClock = 0
    /\ jobWrites = <<>>

\* =========================================================================
\*                               downloadFile
\* =========================================================================
Urls == 1..MaxUrls

\* How the remote answers a URL: "ok" is status 200 and a body of size data
\* events followed by end; "endless" is status 200 and data events without
\* end; "reset" is status 200 and then an error event of the response;
\* "status" is a status other than 200, 301 and 302; "redirect" is 301 or 302
\* with the location to; "silent" is no response and no error; "error" is an
\* error event of the request.
Behaviour(kind, to, size) == [kind |-> kind, to |-> to, size |-> size]

Behaviours ==
    {Behaviour(k, 1, 0) : k \in {"endless", "reset", "status", "silent", "error"}}
        \cup {Behaviour("ok", 1, n) : n \in 1..MaxChunks}
        \cup {Behaviour("redirect", u, 0) : u \in Urls}

\* downloadFile(url): https.get(url, callback)
HttpsGet ==
    /\ dlPc = "idle"
    /\ dlPc' = "requesting"
    /\ UNCHANGED <<dlUrl, dlRemote, dlChunks>>
    /\ UNCHANGED outsideDownload

\* The response callback of https.get: a redirect calls downloadFile with the
\* location and settles as that call does
OnResponse ==
    /\ dlPc = "requesting"
    /\ dlRemote[dlUrl].kind \in {"ok", "endless", "reset", "status", "redirect"}
    /\ IF dlRemote[dlUrl].kind = "redirect"
       THEN /\ dlUrl' = dlRemote[dlUrl].to
            /\ UNCHANGED dlPc
       ELSE /\ dlPc' = IF dlRemote[dlUrl].kind = "status" THEN "rejected"
                       ELSE "receiving"
            /\ UNCHANGED dlUrl
    /\ UNCHANGED <<dlRemote, dlChunks>>
    /\ UNCHANGED outsideDownload

\* .on('error', reject) of the request, response.on('error', reject)
OnError ==
    /\ \/ dlPc = "requesting" /\ dlRemote[dlUrl].kind = "error"
       \/ dlPc = "receiving" /\ dlRemote[dlUrl].kind = "reset"
    /\ dlPc' = "rejected"
    /\ UNCHANGED <<dlUrl, dlRemote, dlChunks>>
    /\ UNCHANGED outsideDownload

\* response.on('data', (chunk) => chunks.push(chunk)); the data events of a
\* response without end are counted up to MaxChunks: the ones after that
\* change nothing downloadFile depends on, and none of them settles the call
OnData ==
    /\ dlPc = "receiving"
    /\ \/ dlRemote[dlUrl].kind = "ok" /\ dlChunks < dlRemote[dlUrl].size
       \/ dlRemote[dlUrl].kind = "endless" /\ dlChunks < MaxChunks
    /\ dlChunks' = dlChunks + 1
    /\ UNCHANGED <<dlPc, dlUrl, dlRemote>>
    /\ UNCHANGED outsideDownload

\* response.on('end', () => resolve(Buffer.concat(chunks).toString()))
OnEnd ==
    /\ dlPc = "receiving"
    /\ dlRemote[dlUrl].kind = "ok"
    /\ dlChunks = dlRemote[dlUrl].size
    /\ dlPc' = "resolved"
    /\ UNCHANGED <<dlUrl, dlRemote, dlChunks>>
    /\ UNCHANGED outsideDownload

DownloadInit ==
    /\ dlPc = "idle"
    /\ dlUrl \in Urls
    /\ dlRemote \in [Urls -> Behaviours]
    /\ dlChunks = 0

\* No downloadFile call, for the specifications that do not model one.
DownloadIdle ==
    /\ dlPc = "idle"
    /\ dlUrl = 1
    /\ dlRemote = [u \in Urls |-> Behaviour("silent", 1, 0)]
    /\ dlChunks = 0

\* The fetcher before any call, for the specifications that do not run it.
FetchIdle ==
    /\ frameworkKey = "demo"
    /\ scope = "minimal"
    /\ treeDepth = 0
    /\ treeFiles = 1
    /\ pc = "idle"
    /\ destExistedBefore = FALSE
    /\ destDirs = {}
    /\ destFiles = <<>>
    /\ callLog = <<>>
    /\ apiErr = NoError
    /\ gitErr = NoError
    /\ thrown = NoError
    /\ totalFiles = 0
    /\ progressLog = <<>>
    /\ writeLog = <<>>
    /\ swallowed = {}
    /\ plan = NoPlan
    /\ gitExit = "none"
    /\ tempCreated = FALSE
    /\ tempExists = FALSE

\* The registry cache before any call, for the specifications that do not
\* run it.
RegIdle ==
    /\ extensionFound = TRUE
    /\ registryFile = AbsentFile
    /\ cacheInfoFile = AbsentFile
    /\ now = 0
    /\ regOutcome = "none"
    /\ regStep = "none"
    /\ regRemote = NoRemote
    /\ regPrev = AbsentFile
    /\ regPrevInfo = AbsentFile
    /\ regPrevNow = 0

\* The registry cache manager alone.
\* Nothing of a session running: no wizard, no job, no download.
SessionIdle == WizIdle /\ JobsIdle /\ DownloadIdle

InitRegistry == RegInit /\ FetchIdle /\ ProcIdle /\ FlowIdle /\ SessionIdle
NextRegistry == UpdateTemplateRegistry \/ Tick
SpecRegistry == InitRegistry /\ [][NextRegistry]_vars

\* The registry cache manager on any cache directory.
InitCacheCheck == CacheCheckInit /\ FetchIdle /\ ProcIdle /\ FlowIdle /\ SessionIdle
NextCacheCheck == UpdateTemplateRegistry \/ Tick
SpecCacheCheck == InitCacheCheck /\ [][NextCacheCheck]_vars

\* One downloadTemplateFromGitHub call.
InitFetch == FetchInit /\ RegIdle /\ ProcIdle /\ FlowIdle /\ SessionIdle
NextFetch == DownloadTemplateViaAPI \/ DownloadTemplateViaGit
SpecFetch == InitFetch /\ [][NextFetch]_vars

\* The replacement table of every project name.
InitTokens == TokensInit /\ RegIdle /\ FetchIdle /\ FlowIdle /\ SessionIdle
NextTokens == BuildReplacements
SpecTokens == InitTokens /\ [][NextTokens]_vars

\* processTemplateFiles run repeatedly on one tree.
InitSubst == SubstInit /\ RegIdle /\ FetchIdle /\ FlowIdle /\ SessionIdle
NextSubst == ProcessTemplateFiles
SpecSubst == InitSubst /\ [][NextSubst]_vars

\* One createProjectFromGitHub call.
InitCreate == CreateInit /\ RegIdle /\ FetchIdle /\ SessionIdle
NextCreate ==
    \/ CheckTargetDirectory
    \/ DownloadStep
    \/ ProcessStep
    \/ ConfigureStep
    \/ PostCreationStep
SpecCreate == InitCreate /\ [][NextCreate]_vars

\* One createProject call, from the registry refresh to the end of
\* createProjectFromGitHub.
InitWizard ==
    /\ WizardInit
    /\ RegInit
    /\ FetchIdle
    /\ createPc = "idle"
    /\ CreateInputs(WizardConfigs)
    /\ JobsIdle
    /\ DownloadIdle
NextWizard ==
    \/ WizUpdateRegistry
    \/ RegistryFailed
    \/ SelectFrameworkWithCategory
    \/ SelectProjectScope
    \/ GetProjectName
    \/ SelectTargetLocation
    \/ GetAdditionalConfiguration
    \/ ConfirmProjectCreation
    \/ InvokeCreate
    \/ CheckTargetDirectory
    \/ DownloadStep
    \/ ProcessStep
    \/ ConfigureStep
    \/ PostCreationStep
    \/ CreateSettled
SpecWizard == InitWizard /\ [][NextWizard]_vars

\* Two createProject jobs whose awaits interleave.
InitJobs ==
    JobsInit /\ RegIdle /\ FetchIdle /\ ProcIdle /\ FlowIdle /\ WizIdle /\ DownloadIdle
NextJobs ==
    \/ \E j \in Jobs : Invoke(j)
    \/ \E j \in Jobs : CheckTarget(j)
    \/ \E j \in Jobs : ApiList(j)
    \/ \E j \in Jobs : ApiWrite(j)
    \/ \E j \in Jobs : GitStart(j)
    \/ \E j \in Jobs : GitClone(j)
    \/ \E j \in Jobs : GitCopy(j)
    \/ \E j \in Jobs : GitCleanup(j)
    \/ \E j \in Jobs : FinishJob(j)
    \/ TickClock
SpecJobs == InitJobs /\ [][NextJobs]_vars

\* One downloadFile call against every remote.  Node delivers an event that
\* has happened and runs a callback that is due: a step that stays possible is
\* taken.
InitDownload ==
    DownloadInit /\ RegIdle /\ FetchIdle /\ ProcIdle /\ FlowIdle /\ WizIdle /\ JobsIdle
NextDownload == HttpsGet \/ OnResponse \/ OnError \/ OnData \/ OnEnd
SpecDownload == InitDownload /\ [][NextDownload]_vars
SpecDownloadFair == InitDownload /\ [][NextDownload]_vars /\ WF_vars(NextDownload)

\* ----------------------------------------------------- registry: claims

\* The last updateTemplateRegistry call attempted a refresh and it failed.
RefreshFailed == regStep \in {"download", "writeRegistry", "parse", "writeInfo"}

\* The cache the last call started from was older than max-age.
PrevCacheStale ==
    /\ pathExists(regPrev)
    /\ regPrevInfo.kind = "json"
    /\ (regPrevNow - regPrevInfo.lastUpdated) > MaxAge

\* C1: whenever updateTemplateRegistry returns normally, a registry file
\* exists at the cache path and getTemplateRegistry returns a non-null
\* registry (the extension's own path being known).
C1_ReturnImpliesReadableRegistry ==
    (extensionFound /\ regOutcome = "returned") =>
        /\ pathExists(registryFile)
        /\ getTemplateRegistry(extensionFound, registryFile) # NullRegistry

\* C2: with a cached registry older than max-age and the remote unreachable,
\* updateTemplateRegistry returns successfully when a registry file already
\* exists; with the remote unreachable it throws only when no registry file
\* exists.
C2_StaleButAvailable ==
    /\ (PrevCacheStale /\ regStep = "download") => regOutcome = "returned"
    /\ (regStep = "download" /\ regOutcome = "threw") =>
           (~pathExists(regPrev) /\ ~pathExists(registryFile))

C2_Witness ==
    /\ PrevCacheStale
    /\ regStep = "download"
    /\ regRemote = Unreachable
    /\ regOutcome = "returned"

\* C3: when a refresh fails at any step, a previously cached registry file
\* keeps its previous content and stays readable; the registry file is only
\* ever replaced by a whole, valid document.
C3_FailedRefreshKeepsCache ==
    /\ (RefreshFailed /\ regPrev.kind = "json") =>
           /\ registryFile = regPrev
           /\ getTemplateRegistry(extensionFound, registryFile) # NullRegistry
    /\ (regOutcome # "none" /\ pathExists(regPrev) /\ registryFile # regPrev) =>
           registryFile.kind = "json"

\* ------------------------------------------------------- fetcher: claims

Finished == pc \in {"returned", "threw"}
GitInvoked == "git" \in Range(callLog)

\* C4: the strategies run in strict order: downloadTemplateViaGit is invoked
\* if and only if downloadTemplateViaAPI threw, and never when it completed.
C4_GitOnlyAfterAPIFailure ==
    /\ GitInvoked => (callLog = <<"api", "git">> /\ apiErr # NoError)
    /\ Finished => (GitInvoked <=> apiErr # NoError)
    /\ (Finished /\ apiErr = NoError) => callLog = <<"api">>

C4_Witness ==
    /\ pc = "returned"
    /\ callLog = <<"api", "git">>
    /\ apiErr # NoError
    /\ gitExit = "copied"

\* C5: when both strategies fail, downloadTemplateFromGitHub throws one error
\* whose message names the template key and the scope, and it is neither the
\* error of Strategy A nor the error of Strategy B.
C5_SingleErrorNamesTemplate ==
    /\ (apiErr # NoError /\ gitErr # NoError) =>
           /\ pc = "threw"
           /\ thrown # NoError
           /\ NamesTemplate(thrown, frameworkKey, scope)
           /\ thrown # apiErr
           /\ thrown # gitErr
    /\ thrown # NoError => (apiErr # NoError /\ gitErr # NoError)

C5_Witness ==
    /\ pc = "threw"
    /\ gitExit = "pathMissing"
    /\ apiErr # NoError
    /\ NamesTemplate(gitErr, frameworkKey, scope)
    /\ thrown # gitErr

IsNotFoundError(err) ==
    /\ err # NoError
    /\ err[1] \in {"Template not found: ", "Resource not found: "}

\* C7: for a key/scope pair absent from the remote repository the fetch fails
\* under Strategy A with a not-found error, then fails under Strategy B, and
\* afterwards neither the staging directory nor a destination directory that
\* did not exist before the call remains on disk.
C7_AbsentTemplateLeavesNothing ==
    (Finished /\ ~TemplateExists(frameworkKey, scope)) =>
        /\ pc = "threw"
        /\ plan.root = "notFound" => IsNotFoundError(apiErr)
        /\ apiErr # NoError
        /\ gitErr # NoError
        /\ ~tempExists
        /\ ~destExistedBefore => (destDirs = {} /\ DOMAIN destFiles = {})

\* Strategy A completed and no request or write of its pass failed.
CleanAPISuccess ==
    /\ pc = "returned"
    /\ callLog = <<"api">>
    /\ plan.countFail = {}
    /\ plan.dlFail = {}
    /\ plan.failFiles = {}

\* C8: after a successful Strategy A materialization every file of the remote
\* tree, at any depth, is under the destination at the relative path it has in
\* the tree (so two files of the same name in different directories are both
\* present).
C8_RelativePathsPreserved ==
    CleanAPISuccess =>
        \A f \in AllFiles : f \in DOMAIN destFiles /\ destFiles[f] = f

\* C9: for a successful Strategy A materialization the cumulative count handed
\* to the progress callback never decreases and equals the total computed by
\* countTotalFiles exactly once, at the last invocation.
C9_ProgressReachesTotalOnce ==
    (pc = "returned" /\ callLog = <<"api">> /\ plan.failFiles = {}) =>
        /\ \A i \in 1..(Len(progressLog) - 1) : progressLog[i] <= progressLog[i + 1]
        /\ Cardinality({i \in DOMAIN progressLog : progressLog[i] = totalFiles}) = 1
        /\ progressLog # <<>>
        /\ progressLog[Len(progressLog)] = totalFiles

\* The place of a file in the depth-first order of the tree.
OrderOf(f) == CHOOSE i \in DOMAIN FilesInOrder(<<>>) : FilesInOrder(<<>>)[i] = f

\* The API pass reached the file: every directory above it was listed.
Attempted(f) == \A k \in 1..(Len(f) - 1) : k \notin plan.dlFail

\* C10: a failure to download or write one file, at the top level or in a
\* nested directory, propagates out of the materializer and aborts the rest:
\* no later file of the tree is written and the pass does not succeed.
C10_FileFailureAborts ==
    \A f \in plan.failFiles :
        (callLog # <<>> /\ plan.root = "ok" /\ Attempted(f)) =>
            /\ apiErr # NoError
            /\ \A w \in Range(writeLog) : OrderOf(w) < OrderOf(f)

\* A file of the tree lies below a directory whose listing failed in the
\* download pass.
InSkippedSubtree(f) == \E k \in 1..(Len(f) - 1) : k \in plan.dlFail

\* C11: when the listing of a nested directory cannot be retrieved during
\* Strategy A (and nothing else fails), only that subtree is skipped: every
\* file outside it is still written, the fetch completes without error and
\* Strategy B is not triggered.
C11_ListingFailureSkipsSubtree ==
    (callLog # <<>> /\ plan.root = "ok" /\ plan.dlFail # {} /\ plan.failFiles = {}) =>
        /\ apiErr = NoError
        /\ pc = "returned"
        /\ callLog = <<"api">>
        /\ \A f \in AllFiles : (f \in Range(writeLog)) <=> ~InSkippedSubtree(f)

C11_Witness ==
    /\ pc = "returned"
    /\ plan.root = "ok"
    /\ plan.dlFail = {1}
    /\ plan.failFiles = {}
    /\ treeDepth >= 1
    /\ treeFiles >= 2
    /\ "listing" \in swallowed
    /\ <<2>> \in Range(writeLog)
    /\ <<DirName, 2>> \in AllFiles
    /\ <<DirName, 2>> \notin Range(writeLog)


\* ---- C15, C16: the derived forms of the project name
TableBuilt == replacements # <<>>

\* C15: for the project name "My Cool App" the table maps the kebab token to
\* "my-cool-app", the snake token to "my_cool_app", the Pascal token to
\* "MyCoolApp" and the camel token to "myCoolApp".
C15_MyCoolAppDerivations ==
    (TableBuilt /\ projectName = "My Cool App") =>
        /\ ValueOf(replacements, "{{PROJECT_NAME_KEBAB}}") = "my-cool-app"
        /\ ValueOf(replacements, "{{PROJECT_NAME_SNAKE}}") = "my_cool_app"
        /\ ValueOf(replacements, "{{PROJECT_NAME_PASCAL}}") = "MyCoolApp"
        /\ ValueOf(replacements, "{{PROJECT_NAME_CAMEL}}") = "myCoolApp"

IsAlnum(c) == LowerChar(c) \in LowerAlnum

\* s with every maximal run of non-alphanumeric characters replaced by one r
RECURSIVE CollapseRuns(_, _)
CollapseRuns(s, r) ==
    IF s = "" THEN ""
    ELSE IF IsAlnum(Head(s)) THEN Head(s) \o CollapseRuns(Tail(s), r)
    ELSE IF Len(s) > 1 /\ ~IsAlnum(At(s, 2)) THEN CollapseRuns(Tail(s), r)
    ELSE r \o CollapseRuns(Tail(s), r)

\* The words of s between runs of '-', '_' and white space, in order
RECURSIVE WordsOf(_, _)
WordsOf(s, word) ==
    IF s = "" THEN (IF word = "" THEN <<>> ELSE <<word>>)
    ELSE IF IsSeparator(Head(s))
         THEN (IF word = "" THEN <<>> ELSE <<word>>) \o WordsOf(Tail(s), "")
         ELSE WordsOf(Tail(s), word \o Head(s))

Capitalised(w) == UpperChar(Head(w)) \o Tail(w)
Uncapitalised(w) == LowerChar(Head(w)) \o Tail(w)

RECURSIVE JoinWords(_, _, _)
JoinWords(ws, i, lowerFirst) ==
    IF i > Len(ws) THEN ""
    ELSE (IF i = 1 /\ lowerFirst THEN Uncapitalised(ws[i]) ELSE Capitalised(ws[i]))
             \o JoinWords(ws, i + 1, lowerFirst)

\* Every character of s is, up to case, a character of name
OnlyCharsOf(s, name) ==
    \A i \in 1..Len(s) : \E k \in 1..Len(name) : LowerChar(At(s, i)) = LowerChar(At(name, k))

\* C16: for every project name the input box accepts, the kebab and snake
\* forms are the lower-cased name with each maximal run of non-alphanumeric
\* characters replaced by a single '-' or '_'; the Pascal and camel forms are
\* the words between '-', '_' and white space re-joined capitalised, the first
\* word lower-case for camel; no form has a character that is not of the name.
C16_DerivationsFollowTheRules ==
    (TableBuilt /\ validateInput(projectName)) =>
        /\ ValueOf(replacements, "{{PROJECT_NAME_KEBAB}}")
               = CollapseRuns(toLowerCase(projectName), "-")
        /\ ValueOf(replacements, "{{PROJECT_NAME_SNAKE}}")
               = CollapseRuns(toLowerCase(projectName), "_")
        /\ ValueOf(replacements, "{{PROJECT_NAME_PASCAL}}")
               = JoinWords(WordsOf(projectName, ""), 1, FALSE)
        /\ ValueOf(replacements, "{{PROJECT_NAME_CAMEL}}")
               = JoinWords(WordsOf(projectName, ""), 1, TRUE)
        /\ OnlyCharsOf(ValueOf(replacements, "{{PROJECT_NAME_PASCAL}}"), projectName)
        /\ OnlyCharsOf(ValueOf(replacements, "{{PROJECT_NAME_CAMEL}}"), projectName)

\* ---- C12, C13: what a processTemplateFiles run does to the files it reads
HasToken(content, table) ==
    \E i \in 1..Len(table) : strIncludes(content, table[i].placeholder)

NoTokenInValues(table) ==
    \A i \in 1..Len(table) : ~HasToken(table[i].replacement, table)

\* No replacement value has a brace or is part of a token
SafeValues(table) ==
    \A i \in 1..Len(table) :
        /\ ~strIncludes(table[i].replacement, "{")
        /\ ~strIncludes(table[i].replacement, "}")
        /\ \A k \in 1..Len(table) : ~strIncludes(table[k].placeholder, table[i].replacement)

RECURSIVE SubstituteOnce(_, _)
SubstituteOnce(content, table) ==
    IF content = "" THEN ""
    ELSE IF \E i \in 1..Len(table) : startsWith(content, table[i].placeholder)
         THEN LET i == CHOOSE i \in 1..Len(table) : startsWith(content, table[i].placeholder)
              IN table[i].replacement
                     \o SubstituteOnce(SubSeq(content, Len(table[i].placeholder) + 1,
                                              Len(content)), table)
         ELSE Head(content) \o SubstituteOnce(Tail(content), table)

RECURSIVE SegmentsOf(_, _)
SegmentsOf(path, segment) ==
    IF path = "" THEN <<segment>>
    ELSE IF Head(path) = "/" THEN <<segment>> \o SegmentsOf(Tail(path), "")
    ELSE SegmentsOf(Tail(path), segment \o Head(path))

FileNameOf(path) == SegmentsOf(path, "")[Len(SegmentsOf(path, ""))]

InDirectoryNamed(path, name) ==
    \E i \in 1..(Len(SegmentsOf(path, "")) - 1) : SegmentsOf(path, "")[i] = name

\* C14: a run leaves a file unread exactly when its name ends with a binary
\* extension or a directory segment of its relative path is node_modules;
\* every other file, at any depth, is read for substitution.
C14_SkipsExactlyBinaryAndNodeModules ==
    runs >= 1 =>
        \A p \in DOMAIN filesBefore :
            (p \notin visited) <=>
                (isBinaryFile(FileNameOf(p)) \/ InDirectoryNamed(p, "node_modules"))

\* ---- C17, C18: the collision dialog of createProjectFromGitHub
\* C17: after the answer Overwrite for an existing destination, no file under
\* projectPath is a file of the prior occupant, at the end of the call and at
\* every step before it.
C17_OverwriteLeavesNoPriorFile ==
    (destExisted /\ choice = "Overwrite") =>
        \A p \in DOMAIN projectFiles : fileOrigin[p] # "prior"

C17_Witness ==
    /\ createPc = "done"
    /\ choice = "Overwrite"
    /\ "old.txt" \in DOMAIN priorFiles
    /\ "old.txt" \notin DOMAIN projectFiles
    /\ "README.md" \in DOMAIN projectFiles
    /\ projectFiles["README.md"] = "# demo-app: demo-app"

\* C18: when the destination exists and the dialog is answered with Cancel or
\* dismissed without an answer, no step of the call is invoked and the
\* destination keeps the files it had.
C18_NoChoiceLeavesDestinationAlone ==
    (destExisted /\ choice \in {"Cancel", "dismissed"}) =>
        (stepLog = <<>> /\ projectFiles = priorFiles)

\* ---- C19: the order of the steps of one call
IsPrefix(s, t) == Len(s) <= Len(t) /\ \A i \in 1..Len(s) : s[i] = t[i]

\* C19: the steps of one call are invoked in the order fetch, substitution,
\* overlay, post-creation, each after the one before it has finished, and the
\* substitution reads no file written by the overlay.
C19_StepsInOrder ==
    /\ IsPrefix(stepLog, <<"fetch", "subst", "overlay", "post">>)
    /\ \A x \in substSaw : x[2] # "overlay"

C19_Witness ==
    /\ createPc = "done"
    /\ stepLog = <<"fetch", "subst", "overlay", "post">>
    /\ <<"README.md", "template">> \in substSaw
    /\ ".yarnrc.yml" \in DOMAIN fileOrigin
    /\ fileOrigin[".yarnrc.yml"] = "overlay"

\* ---- C20: the features of the overlay
\* C20: applyFeatureConfigurations goes through every selected feature in
\* order whether or not an earlier one threw: it throws nothing, and every
\* feature whose configurator does not throw is applied and its file written.
C20_FeaturesAppliedInIsolation ==
    (createPc \in {"post", "done"} /\ additionalConfig.features # <<>>) =>
        /\ featureErr = FALSE
        /\ Len(featureLog) = Len(additionalConfig.features)
        /\ \A i \in 1..Len(featureLog) :
               LET f == additionalConfig.features[i] IN
               /\ featureLog[i].feature = f
               /\ featureLog[i].outcome = (IF f \in failing THEN "threw" ELSE "applied")
               /\ f \notin failing =>
                      \A p \in DOMAIN FeatureFiles(f) :
                          p \in DOMAIN projectFiles /\ fileOrigin[p] = "overlay"

C20_Witness ==
    /\ createPc = "done"
    /\ additionalConfig.features = <<"linting", "docs">>
    /\ failing = {"linting"}
    /\ featureLog = << [feature |-> "linting", outcome |-> "threw"],
                       [feature |-> "docs", outcome |-> "applied"] >>
    /\ "docs/README.md" \in DOMAIN projectFiles
    /\ ".eslintrc.json" \notin DOMAIN projectFiles

\* ---- C25: when the registry is refreshed
\* The last call asked the remote for the registry
RefreshAttempted == regStep \notin {"none", "noExtension", "fresh"}

C27_FallbackLeavesOnlyTheTemplate ==
    (/\ ~destExistedBefore
     /\ callLog = <<"api", "git">>
     /\ writeLog # <<>>
     /\ pc = "returned") =>
        /\ DOMAIN destFiles = AllFiles
        /\ \A p \in DOMAIN destFiles : destFiles[p] = p
        /\ destDirs = AllDirs \cup {<<>>}

\* ---- C23, C26, C28: what a finished createProjectFromGitHub leaves on disk
\* The text processTemplateFiles leaves for a template file of this run
Substituted(content) ==
    processFile(content,
                Replacements(projectName, FrameworkName, "minimal", additionalConfig)).content

\* C23: a run for the project name demo-app into a directory that did not
\* exist, with every file of the template fetched and no option chosen, ends
\* with README.md holding demo-app at every occurrence of the project-name
\* token and with no file under the destination beyond those of the template.
C23_FreshRunHoldsExactlyTheTemplate ==
    (/\ createPc = "done"
     /\ ~destExisted
     /\ projectName = "demo-app"
     /\ additionalConfig = NoConfig
     /\ DOMAIN TemplateFiles \subseteq DOMAIN projectFiles) =>
        /\ projectFiles["README.md"] = "# demo-app: demo-app"
        /\ DOMAIN projectFiles = DOMAIN TemplateFiles

\* C26: after a run that answered Merge, every file of the prior occupant at a
\* path no step of the run wrote to holds the bytes it held before, and every
\* file the template wrote holds the template's text after substitution.
C26_MergeKeepsPriorFiles ==
    (createPc = "done" /\ destExisted /\ choice = "Merge") =>
        /\ \A p \in DOMAIN priorFiles \ DOMAIN TemplateFiles :
               (p \in DOMAIN projectFiles /\ fileOrigin[p] = "prior") =>
                   projectFiles[p] = priorFiles[p]
        /\ \A p \in DOMAIN TemplateFiles \cap DOMAIN projectFiles :
               fileOrigin[p] = "template" =>
                   projectFiles[p] = Substituted(TemplateFiles[p])

\* C28: after a finished run no file the run wrote (a template file, a file of
\* an option, a generated file) contains the token {{PROJECT_NAME}}.
C28_NoProjectNameTokenLeft ==
    createPc = "done" =>
        \A p \in DOMAIN projectFiles :
            fileOrigin[p] # "prior" =>
                ~strIncludes(projectFiles[p], "{{PROJECT_NAME}}")

\* ---- C21, C22: createProject jobs running at the same time
\* The writes of two jobs under project path d alternate: a write of one job
\* lies between two writes of the other.
Interleaved(d) ==
    \E i, k, l \in DOMAIN jobWrites :
        /\ i < k /\ k < l
        /\ jobWrites[i] = jobWrites[l]
        /\ jobWrites[i][2] = d
        /\ jobWrites[k][2] = d
        /\ jobWrites[k][1] # jobWrites[i][1]

\* C21: when a command is invoked while another createProject job is still
\* running, the writes of the two jobs under one project path never
\* interleave.
C21_WritesNeverInterleave == \A d \in Dests : ~Interleaved(d)

\* The downloadTemplateViaGit call of job j is between choosing its staging
\* directory and the end of its cleanup
Staging(j) == jobPc[j] \in {"clone", "copy", "cleanup"}

\* Job j has cloned into its staging directory and not yet copied from it
UsesStaging(j) == jobPc[j] = "copy" /\ jobTemp[j] \in tempDirs

\* C22: two downloadTemplateViaGit calls that overlap have distinct staging
\* directories, and no step removes the staging directory of a call that has
\* cloned into it and has still to copy from it.
C22_StagingDirectoryIsOwned ==
    /\ [](\A a, b \in Jobs :
            (a # b /\ Staging(a) /\ Staging(b)) => jobTemp[a] # jobTemp[b])
    /\ [][\A j \in Jobs :
            (UsesStaging(j) /\ jobPc'[j] = "copy") => jobTemp[j] \in tempDirs']_vars

\* ---- C24: downloadFile settles
\* C24: every downloadFile call eventually resolves or rejects, whatever the
\* remote does: no response, a response that never ends, or redirects
\* without end.
C24_DownloadFileSettles ==
    (dlPc = "requesting") ~> (dlPc \in {"resolved", "rejected"})

\* ---- C29, C30: the wizard of createProject
\* C29: once the user has chosen a scope the descriptor lists, whichever it
\* is, a call of confirmProjectCreation shows the confirmation dialog: it
\* raises no error.
C29_ListedScopeReachesTheDialog ==
    "confirmProjectCreation" \in Range(wizLog) => dialogShown

====
